---- MODULE Spec2Model ----
(***************************************************************************)
(* A model of the chat backend (backend/src/server.ts, backend/src/db.ts). *)
(* Every request handler is a sequence of steps, one per awaited store     *)
(* operation: a step executes that store operation and the synchronous     *)
(* code that follows it, up to the next await.  Handlers of concurrent     *)
(* requests interleave at these steps, as they do on the node event loop.  *)
(***************************************************************************)
EXTENDS Integers, Sequences, FiniteSets, TLC

\* ------------------------------------------------------------------ bounds
\* request slots that may be in flight at the same time
NumProcs == 2
\* commands issued in one behaviour of the channel specification
MaxChannelCmds == 2

\* ------------------------------------------------------------- constants
Procs == 1..NumProcs
\* the users that have signed up (ids 1 and 2); 0 is initDb's created_by
Users == {1, 2}
UserName(u) == IF u = 1 THEN "alice" ELSE "bob"
UserEmail(u) == IF u = 1 THEN "alice@example.com" ELSE "bob@example.com"
UserPassword(u) == IF u = 1 THEN "alice-pw" ELSE "bob-pw"
\* strings that are no e-mail address
MalformedEmails == {"carol"}
\* server.ts hashPassword (124-126): a deterministic one-way digest
hashPassword(password) == <<"sha256", password>>
ChannelNames == {"general", "dev"}
ThreadTitles == {"main", "topic"}

\* ------------------------------------------------------ content parser
\* A content string is a sequence of characters.  "T" stands for the five
\* characters of the literal :task (in any letter case), "a" for any other
\* non-whitespace character, " " for a blank and "\n" for a line feed.
Chars == {"T", "a", " ", "\n"}

\* what the regex class \s and String.prototype.trim treat as white space
IsSpace(c) == c \in {" ", "\n", "\r"}

RECURSIVE trimStart(_)
trimStart(s) ==
    IF s # <<>> /\ IsSpace(Head(s)) THEN trimStart(Tail(s)) ELSE s

RECURSIVE trimEnd(_)
trimEnd(s) ==
    IF s # <<>> /\ IsSpace(s[Len(s)]) THEN trimEnd(SubSeq(s, 1, Len(s) - 1)) ELSE s

trim(s) == trimEnd(trimStart(s))

\* /(^|\s):task(\s|$)/ tried at index i (1-based): the number of characters
\* the match takes there, 0 when it does not match at i
TaskFlagMatchAt(s, i) ==
    LET tail(j) == IF j + 1 <= Len(s) /\ IsSpace(s[j + 1]) THEN 2
                   ELSE IF j = Len(s) THEN 1 ELSE 0
        \* alternative ^ : the token itself stands at i = 1
        atStart == IF i = 1 /\ s[i] = "T" THEN tail(i) ELSE 0
        \* alternative \s : a white space at i and the token at i + 1
        afterSpace == IF IsSpace(s[i]) /\ i + 1 <= Len(s) /\ s[i + 1] = "T"
                         /\ tail(i + 1) > 0
                      THEN 1 + tail(i + 1) ELSE 0
    IN IF atStart > 0 THEN atStart ELSE afterSpace

\* a detection that looks for :task anywhere, /:task/i
hasTaskFlagAnywhere(s) == \E i \in 1..Len(s) : s[i] = "T"

\* /(^|\s):task(\s|$)/i.test(content)  (server.ts 430, 707)
hasTaskFlag(s) == \E i \in 1..Len(s) : TaskFlagMatchAt(s, i) > 0

\* content.replace(/(^|\s):task(\s|$)/gi, " "): matches are taken left to
\* right, each search resuming after the previous match
RECURSIVE replaceTaskFlag(_, _)
replaceTaskFlag(s, i) ==
    IF i > Len(s) THEN <<>>
    ELSE LET n == TaskFlagMatchAt(s, i)
         IN IF n > 0 THEN <<" ">> \o replaceTaskFlag(s, i + n)
            ELSE <<s[i]>> \o replaceTaskFlag(s, i + 1)

\* server.ts stripTaskFlag (134-136)
stripTaskFlag(content) == trim(replaceTaskFlag(content, 1))

\* content.replace(/\r\n/g, "\n")
RECURSIVE replaceCRLF(_)
replaceCRLF(s) ==
    IF s = <<>> THEN <<>>
    ELSE IF Len(s) >= 2 /\ s[1] = "\r" /\ s[2] = "\n" THEN <<"\n">> \o replaceCRLF(Tail(Tail(s)))
    ELSE <<Head(s)>> \o replaceCRLF(Tail(s))

\* String.prototype.indexOf("\n"), 1-based, 0 when there is none
indexOfNewline(s) ==
    IF \E i \in 1..Len(s) : s[i] = "\n"
    THEN CHOOSE i \in 1..Len(s) : s[i] = "\n" /\ \A j \in 1..(i - 1) : s[j] # "\n"
    ELSE 0

\* .replace(/^\n+/, "")
RECURSIVE dropLeadingNewlines(_)
dropLeadingNewlines(s) ==
    IF s # <<>> /\ Head(s) = "\n" THEN dropLeadingNewlines(Tail(s)) ELSE s

\* server.ts parseTaskPayload (138-154); title <<>> stands for title: null
parseTaskPayload(content) ==
    LET cleaned == trimEnd(replaceCRLF(stripTaskFlag(content)))
        newlineIndex == indexOfNewline(cleaned)
    IN IF newlineIndex = 0
       THEN [title |-> trim(cleaned), note |-> <<>>]
       ELSE LET title == trim(SubSeq(cleaned, 1, newlineIndex - 1))
            IN IF title = <<>>
               THEN [title |-> <<>>, note |-> <<>>]
               ELSE [title |-> title,
                     note |-> trimEnd(dropLeadingNewlines(
                                  SubSeq(cleaned, newlineIndex + 1, Len(cleaned))))]

VARIABLES
    users,      \* rows of table users
    channels,   \* rows of table channels
    threads,    \* rows of table threads
    messages,   \* rows of table messages
    replies,    \* rows of table replies
    tasks,      \* rows of table tasks
    nextId,     \* AUTOINCREMENT counters, one per table
    events,     \* every event handed to broadcastEvent, in emission order
    pc,         \* per request slot: the await the handler is suspended at
    loc,        \* per request slot: the handler's local variables
    done,       \* the responses sent so far: command number -> response and request
    nCmds,      \* number of commands started
    created,    \* history: channels inserted by Create channel, with requester
    manual,     \* history: thread ids inserted by Create thread
    taskLog,    \* history: every row inserted into tasks, with the inserting command
    sessions,   \* rows of table sessions
    now,        \* the clock behind datetime('now'), in days
    sessLog,    \* history: per session id, when it was issued and last slid
    revoked,    \* history: the session ids a Logout has revoked
    purged,     \* history: the session ids the purge of getCurrentUser deleted
    streamClients, \* the set streamClients: the connections of GET /events
    written,    \* per connection: the payloads written to it, in order
    connState,  \* per connection: "new", "open" (subscribed) or "closed"
    subFrom,    \* history: per connection, the events emitted before it subscribed
    closedAt,   \* history: per connection, the events emitted before it closed
    failedAt,   \* history: the writes that threw: connection and event number
    page,       \* per connection: the state of the page that reads the stream
    view        \* the thread view of one page: focus, lists, unread counters

vars == <<users, channels, threads, messages, replies, tasks, nextId, events,
          pc, loc, done, nCmds, created, manual, taskLog,
          sessions, now, sessLog, revoked, purged,
          streamClients, written, connState, subFrom, closedAt, failedAt, page, view>>

sessVars == <<sessions, now, sessLog, revoked, purged>>
\* what the channel commands leave alone
notChannel == <<users, messages, replies, tasks, taskLog, sessVars>>
\* what the message, reply and task commands leave alone
notStore == <<users, channels, threads, created, manual, sessVars>>

streamVars == <<streamClients, written, connState, subFrom, closedAt, failedAt, page, view>>

Idle == [cmd |-> "idle"]

\* the page before its first render: no task, no stream payload handled,
\* no loadTasks in flight (useState<TaskItem[]>([]))
NoPage == [tasks |-> {}, seen |-> 0, booted |-> FALSE, loads |-> {}, nLoads |-> 0]

\* the thread view before bootstrap: user null, nothing selected (0 stands
\* for null), empty lists, no unread counter, no EventSource (conn 0), no
\* fetch in flight.  History: reads are the read cursors sent, dedups the
\* types of the creation events that arrived for an id already listed,
\* received the events counted per thread since the thread was last focused
NoView == [user |-> FALSE, conn |-> 0, seen |-> 0, receiveTaskBotMessages |-> TRUE,
           selectedChannelId |-> 0, selectedThreadId |-> 0, selectedMessageId |-> 0,
           channels |-> <<>>, threads |-> <<>>, messages |-> <<>>, replies |-> <<>>,
           unreadByThread |-> <<>>, fetches |-> {}, nFetches |-> 0,
           reads |-> {}, dedups |-> {}, received |-> <<>>,
           muted |-> <<>>]

\* ------------------------------------------------------------ the store
\* db.ts initDb: the schema and the seeded rows (channel "general" with
\* its "main" thread created by user 0)
initDb ==
    /\ channels = {[id |-> 1, name |-> "general"]}
    /\ threads = {[id |-> 1, channel_id |-> 1, title |-> "main", created_by |-> 0]}
    /\ messages = {}
    /\ replies = {}
    /\ tasks = {}

\* server.ts broadcastEvent: the event is appended to the emission log; the
\* loop over streamClients that writes it is streamWrites below
broadcastEvent(log, event) == Append(log, event)

\* connections that may open GET /events in one behaviour
MaxConns == 2
Conns == 1..MaxConns

\* a broadcast that gives up at the first write that throws
writtenUntilFirstFailure(wr, clients, failing, event) ==
    [c \in Conns |-> IF c \in clients /\ failing = {} THEN Append(wr[c], event) ELSE wr[c]]

\* broadcastEvent, try { client.write(payload) }: the payload reaches every
\* member of the set whose write does not throw
writtenAfterWrite(wr, clients, failing, event) ==
    [c \in Conns |-> IF c \in clients \ failing THEN Append(wr[c], event) ELSE wr[c]]

\* a failed write that drops every subscriber
clientsClearedOnFailure(clients, failing) ==
    IF failing \cap clients # {} THEN {} ELSE clients

\* broadcastEvent, catch { streamClients.delete(client) }
clientsAfterWrite(clients, failing) == clients \ failing

\* the loop of broadcastEvent run for each event of newEvents in turn;
\* failing[i] are the connections whose write of the i-th of them throws
RECURSIVE writeEach(_, _, _, _)
writeEach(st, newEvents, failing, i) ==
    IF i > Len(newEvents) THEN st
    ELSE LET f == failing[i] \cap st.clients
         IN writeEach([clients |-> clientsAfterWrite(st.clients, f),
                       written |-> writtenAfterWrite(st.written, st.clients, f, newEvents[i]),
                       failedAt |-> st.failedAt \cup
                                      {[conn |-> c, idx |-> Len(events) + i] : c \in f}],
                      newEvents, failing, i + 1)

\* the part of a handler step that broadcastEvent runs for the events the
\* step emits (none for most steps): every write may throw
streamWrites ==
    /\ \E failing \in [1..(Len(events') - Len(events)) -> SUBSET streamClients] :
          LET st == writeEach([clients |-> streamClients, written |-> written,
                               failedAt |-> failedAt],
                              SubSeq(events', Len(events) + 1, Len(events')), failing, 1)
          IN /\ streamClients' = st.clients
             /\ written' = st.written
             /\ failedAt' = st.failedAt
    /\ UNCHANGED <<page, view>>
    /\ UNCHANGED <<connState, subFrom, closedAt>>

\* res.json / res.status(..).json: the one response of command loc[p].cid
respondWith(p, status, req) ==
    /\ done' = done @@ (loc[p].cid :> [cmd |-> loc[p].cmd, status |-> status, req |-> req])
    /\ pc' = [pc EXCEPT ![p] = "idle"]
    /\ loc' = [loc EXCEPT ![p] = Idle]

respond(p, status) == respondWith(p, status, loc[p])

\* an awaited store call rejected outside any try/catch: the async handler
\* ends there.  What the caller gets depends on the express release the
\* build resolves (the sources pin none): express 4 ignores the rejected
\* promise and nothing is sent (status 0 records that), express 5 hands it
\* to the default error handler, which answers 500.
reject(p) == \E status \in {0, 500} : respond(p, status)

start(p, label, locals) ==
    /\ pc[p] = "idle"
    /\ \A q \in Procs : q < p => pc[q] # "idle"
    /\ nCmds' = nCmds + 1
    /\ pc' = [pc EXCEPT ![p] = label]
    /\ loc' = [loc EXCEPT ![p] = locals @@ [cid |-> nCmds + 1]]

goto(p, label, locals) ==
    /\ pc' = [pc EXCEPT ![p] = label]
    /\ loc' = [loc EXCEPT ![p] = locals]

\* the two users of the model have signed up (POST /auth/signup, 262-266)
Init ==
    /\ initDb
    /\ users = {[id |-> u, name |-> UserName(u), email |-> UserEmail(u),
                  password |-> hashPassword(UserPassword(u))] : u \in Users}
    /\ sessions = {}
    /\ now = 0
    /\ sessLog = <<>>
    /\ revoked = {}
    /\ purged = {}
    /\ nextId = [users |-> 3, channels |-> 2, threads |-> 2, messages |-> 1,
                 replies |-> 1, tasks |-> 1]
    /\ taskLog = {}
    /\ events = <<>>
    /\ pc = [p \in Procs |-> "idle"]
    /\ loc = [p \in Procs |-> Idle]
    /\ done = <<>>
    /\ nCmds = 0
    /\ created = {}
    /\ manual = {}
    /\ streamClients = {}
    /\ written = [c \in Conns |-> <<>>]
    /\ connState = [c \in Conns |-> "new"]
    /\ subFrom = [c \in Conns |-> 0]
    /\ closedAt = [c \in Conns |-> 0]
    /\ failedAt = {}
    /\ page = [c \in Conns |-> NoPage]
    /\ view = NoView

\* ------------------------------------------------ POST /channels (334-364)
CreateChannel(p) ==
    \E u \in Users, name \in ChannelNames :
        /\ nCmds < MaxChannelCmds
        /\ start(p, "cc_insert", [cmd |-> "CreateChannel", user |-> u, name |-> name])
        /\ UNCHANGED <<channels, threads, nextId, events, done, created, manual>>
        /\ UNCHANGED notChannel

\* an insert into a channels table whose name column is not UNIQUE
cc_insertAnyName(p) ==
    /\ pc[p] = "cc_insert"
    /\ channels' = channels \cup {[id |-> nextId.channels, name |-> loc[p].name]}
    /\ nextId' = [nextId EXCEPT !.channels = @ + 1]
    /\ created' = created \cup {[channel |-> nextId.channels, by |-> loc[p].user]}
    /\ goto(p, "cc_get", loc[p] @@ [lastID |-> nextId.channels])
    /\ UNCHANGED <<threads, events, done, nCmds, manual>>
    /\ UNCHANGED notChannel

\* INSERT INTO channels (name): name is UNIQUE, a duplicate rejects and the
\* catch block answers 400
cc_insert(p) ==
    /\ pc[p] = "cc_insert"
    /\ IF \E c \in channels : c.name = loc[p].name
       THEN /\ respond(p, 400)
            /\ UNCHANGED <<channels, nextId, created>>
       ELSE /\ channels' = channels \cup {[id |-> nextId.channels, name |-> loc[p].name]}
            /\ nextId' = [nextId EXCEPT !.channels = @ + 1]
            /\ created' = created \cup {[channel |-> nextId.channels, by |-> loc[p].user]}
            /\ goto(p, "cc_get", loc[p] @@ [lastID |-> nextId.channels])
            /\ UNCHANGED done
    /\ UNCHANGED <<threads, events, nCmds, manual>>
    /\ UNCHANGED notChannel

\* SELECT * FROM channels WHERE id = lastID
cc_get(p) ==
    /\ pc[p] = "cc_get"
    /\ goto(p, "cc_threadins",
            loc[p] @@ [channel |-> \E c \in channels : c.id = loc[p].lastID])
    /\ UNCHANGED <<channels, threads, nextId, events, done, nCmds, created, manual>>
    /\ UNCHANGED notChannel

\* INSERT INTO threads (channel_id, 'main', req.user.id); db.ts run rejects
\* when sqlite reports an error, and the catch block then answers 400
cc_threadins(p) ==
    /\ pc[p] = "cc_threadins"
    /\ \E ok \in BOOLEAN :
        IF ok
        THEN /\ threads' = threads \cup {[id |-> nextId.threads, channel_id |-> loc[p].lastID,
                                            title |-> "main", created_by |-> loc[p].user]}
             /\ nextId' = [nextId EXCEPT !.threads = @ + 1]
             /\ goto(p, "cc_threadget", loc[p] @@ [threadID |-> nextId.threads])
             /\ UNCHANGED done
        ELSE /\ respond(p, 400)
             /\ UNCHANGED <<threads, nextId>>
    /\ UNCHANGED <<channels, events, nCmds, created, manual>>
    /\ UNCHANGED notChannel

\* a handler that announces the thread before the channel
cc_threadgetThreadFirst(p) ==
    /\ pc[p] = "cc_threadget"
    /\ events' = broadcastEvent(
                     broadcastEvent(events, [type |-> "thread_created", cid |-> loc[p].cid,
                                             id |-> loc[p].threadID]),
                     [type |-> "channel_created", cid |-> loc[p].cid, id |-> loc[p].lastID])
    /\ respond(p, 200)
    /\ UNCHANGED <<channels, threads, nextId, nCmds, created, manual>>
    /\ UNCHANGED notChannel

\* SELECT * FROM threads WHERE id = threadID, then both broadcasts and res.json
cc_threadget(p) ==
    /\ pc[p] = "cc_threadget"
    /\ LET mainThread == \E t \in threads : t.id = loc[p].threadID
           e1 == IF loc[p].channel
                 THEN broadcastEvent(events, [type |-> "channel_created", cid |-> loc[p].cid,
                                              id |-> loc[p].lastID])
                 ELSE events
           e2 == IF mainThread
                 THEN broadcastEvent(e1, [type |-> "thread_created", cid |-> loc[p].cid,
                                          id |-> loc[p].threadID])
                 ELSE e1
       IN events' = e2
    /\ respond(p, 200)
    /\ UNCHANGED <<channels, threads, nextId, nCmds, created, manual>>
    /\ UNCHANGED notChannel

\* ------------------------------- POST /channels/:channelId/threads (375-395)
CreateThread(p) ==
    \E u \in Users, ch \in {1, 2}, title \in ThreadTitles :
        /\ nCmds < MaxChannelCmds
        /\ start(p, "th_insert", [cmd |-> "CreateThread", user |-> u, channelId |-> ch,
                                  title |-> title])
        /\ UNCHANGED <<channels, threads, nextId, events, done, created, manual>>
        /\ UNCHANGED notChannel

th_insert(p) ==
    /\ pc[p] = "th_insert"
    /\ threads' = threads \cup {[id |-> nextId.threads, channel_id |-> loc[p].channelId,
                                 title |-> loc[p].title, created_by |-> loc[p].user]}
    /\ nextId' = [nextId EXCEPT !.threads = @ + 1]
    /\ manual' = manual \cup {nextId.threads}
    /\ goto(p, "th_get", loc[p] @@ [lastID |-> nextId.threads])
    /\ UNCHANGED <<channels, events, done, nCmds, created>>
    /\ UNCHANGED notChannel

th_get(p) ==
    /\ pc[p] = "th_get"
    /\ events' = IF \E t \in threads : t.id = loc[p].lastID
                 THEN broadcastEvent(events, [type |-> "thread_created", cid |-> loc[p].cid,
                                              id |-> loc[p].lastID])
                 ELSE events
    /\ respond(p, 200)
    /\ UNCHANGED <<channels, threads, nextId, nCmds, created, manual>>
    /\ UNCHANGED notChannel

NextChannel ==
    \E p \in Procs :
        \/ CreateChannel(p) /\ streamWrites
        \/ cc_insert(p) /\ streamWrites
        \/ cc_get(p) /\ streamWrites
        \/ cc_threadins(p) /\ streamWrites
        \/ cc_threadget(p) /\ streamWrites
        \/ CreateThread(p) /\ streamWrites
        \/ th_insert(p) /\ streamWrites
        \/ th_get(p) /\ streamWrites

SpecChannel == Init /\ [][NextChannel]_vars

\* the "main" threads of channel c that no Create thread call inserted
MainThreadsOf(c) ==
    {t \in threads : t.channel_id = c /\ t.title = "main" /\ t.id \notin manual}

\* C1: in every reachable state, every channel inserted by Create channel has
\* exactly one "main" thread, owned by the requester, that no Create thread
\* call made.
C1_ChannelHasMainThread ==
    \A k \in created :
        /\ Cardinality(MainThreadsOf(k.channel)) = 1
        /\ \A t \in MainThreadsOf(k.channel) : t.created_by = k.by

\* ---------------------------------------------------- messages and tasks
\* commands issued in one behaviour of the store specification
MaxStoreCmds == 3
\* thread 1 is the seeded "main" thread; no thread has id 2 in SpecStore
ThreadIds == {1, 2}
\* a request names a message (task) that exists, existed, or is the next to be inserted
MessageIds == 1..nextId.messages
TaskIds == 1..nextId.tasks
\* request bodies {content, createTask} of Post message and Post reply
StoreBodies ==
    { [content |-> <<"a">>, createTask |-> FALSE],
      [content |-> <<"a", " ", "T">>, createTask |-> FALSE] }

\* server.ts 429-436 and 706-713: what is stored and the task decision
postPayload(body) ==
    LET rawContent == trim(body.content)
        flag == hasTaskFlag(rawContent)
        sanitizedContent == IF flag THEN stripTaskFlag(rawContent) ELSE rawContent
        contentForMessage == IF Len(sanitizedContent) > 0 THEN sanitizedContent ELSE rawContent
        taskPayload == parseTaskPayload(IF body.createTask THEN contentForMessage ELSE rawContent)
    IN [content |-> contentForMessage,
        shouldCreateTask |-> body.createTask \/ flag,
        taskTitle |-> taskPayload.title,
        taskNote |-> taskPayload.note]

\* SELECT threads.channel_id ... FROM threads JOIN channels WHERE threads.id = ?
threadMeta(threadId) ==
    {t \in threads : t.id = threadId /\ \E c \in channels : c.id = t.channel_id}

\* SELECT messages.* ... FROM messages JOIN users WHERE messages.id = ?
messageRow(id) ==
    {m \in messages : m.id = id /\ \E u \in users : u.id = m.user_id}

\* COALESCE((SELECT COUNT(*) FROM replies WHERE replies.message_id = messages.id), 0)
replyCount(id) == Cardinality({r \in replies : r.message_id = id})

\* SELECT tasks.* ... JOIN users JOIN channels JOIN threads WHERE tasks.message_id = ?
taskRowOfMessage(messageId) ==
    {t \in tasks : /\ t.message_id = messageId
                   /\ \E u \in users : u.id = t.created_by
                   /\ \E c \in channels : c.id = t.channel_id
                   /\ \E th \in threads : th.id = t.thread_id}

\* INSERT OR IGNORE INTO tasks: tasks.message_id is UNIQUE (db.ts 143), a row
\* for a message that has one is ignored; the value is the new table
insertOrIgnoreTask(row) ==
    IF \E t \in tasks : t.message_id = row.message_id THEN tasks ELSE tasks \cup {row}

newTask(p, messageId, channelId, threadId) ==
    [id |-> nextId.tasks, message_id |-> messageId, channel_id |-> channelId,
     thread_id |-> threadId, created_by |-> loc[p].user, title |-> loc[p].taskTitle,
     note |-> loc[p].taskNote, status |-> "open", updated_at |-> now]

\* the step of both handlers that runs INSERT OR IGNORE INTO tasks
taskInsertStep(p, row) ==
    LET changes == IF insertOrIgnoreTask(row) = tasks THEN 0 ELSE 1
    IN /\ tasks' = insertOrIgnoreTask(row)
       /\ nextId' = IF changes > 0 THEN [nextId EXCEPT !.tasks = @ + 1] ELSE nextId
       /\ taskLog' = IF changes > 0 THEN taskLog \cup {[row |-> row, cid |-> loc[p].cid]}
                     ELSE taskLog

\* ---------------------------- POST /threads/:threadId/messages (420-501)
PostMessage(p) ==
    \E u \in Users, threadId \in ThreadIds, body \in StoreBodies :
        /\ nCmds < MaxStoreCmds
        /\ start(p, "pm_insert", [cmd |-> "PostMessage", user |-> u, threadId |-> threadId,
                                  createTask |-> body.createTask, raw |-> body.content]
                                 @@ postPayload(body))
        /\ UNCHANGED <<messages, replies, tasks, nextId, events, done, taskLog>>
        /\ UNCHANGED notStore

\* INSERT INTO messages (thread_id, user_id, content)
pm_insert(p) ==
    /\ pc[p] = "pm_insert"
    /\ messages' = messages \cup {[id |-> nextId.messages, thread_id |-> loc[p].threadId,
                                   user_id |-> loc[p].user, content |-> loc[p].content]}
    /\ nextId' = [nextId EXCEPT !.messages = @ + 1]
    /\ goto(p, "pm_get", loc[p] @@ [lastID |-> nextId.messages])
    /\ UNCHANGED <<replies, tasks, events, done, nCmds, taskLog>>
    /\ UNCHANGED notStore

\* SELECT the new message with its reply_count; without it the handler
\* answers at once
pm_get(p) ==
    /\ pc[p] = "pm_get"
    /\ IF messageRow(loc[p].lastID) # {}
       THEN goto(p, "pm_meta",
                 loc[p] @@ [rowContent |->
                                (CHOOSE m \in messageRow(loc[p].lastID) : TRUE).content,
                            replyCount |-> replyCount(loc[p].lastID)])
            /\ UNCHANGED done
       ELSE respond(p, 200)
    /\ UNCHANGED <<messages, replies, tasks, nextId, events, nCmds, taskLog>>
    /\ UNCHANGED notStore

\* SELECT threadMeta, broadcast message_created, then the task decision
pm_meta(p) ==
    /\ pc[p] = "pm_meta"
    /\ events' = IF threadMeta(loc[p].threadId) # {}
                 THEN broadcastEvent(events, [type |-> "message_created", cid |-> loc[p].cid,
                                              id |-> loc[p].lastID])
                 ELSE events
    /\ IF loc[p].shouldCreateTask /\ loc[p].taskTitle # <<>>
       THEN goto(p, "pm_info", loc[p]) /\ UNCHANGED done
       ELSE respond(p, 200)
    /\ UNCHANGED <<messages, replies, tasks, nextId, nCmds, taskLog>>
    /\ UNCHANGED notStore

\* SELECT channel_id FROM threads WHERE id = threadId
pm_info(p) ==
    /\ pc[p] = "pm_info"
    /\ IF \E t \in threads : t.id = loc[p].threadId
       THEN /\ goto(p, "pm_taskins",
                    loc[p] @@ [channelId |-> (CHOOSE t \in threads : t.id = loc[p].threadId).channel_id])
            /\ UNCHANGED done
       ELSE respond(p, 200)
    /\ UNCHANGED <<messages, replies, tasks, nextId, events, nCmds, taskLog>>
    /\ UNCHANGED notStore

\* INSERT OR IGNORE INTO tasks (message.id, ...)
pm_taskins(p) ==
    /\ pc[p] = "pm_taskins"
    /\ taskInsertStep(p, newTask(p, loc[p].lastID, loc[p].channelId, loc[p].threadId))
    /\ goto(p, "pm_taskget", loc[p])
    /\ UNCHANGED <<messages, replies, events, done, nCmds>>
    /\ UNCHANGED notStore

\* SELECT the task of message.id, broadcast task_created when there is one
pm_taskget(p) ==
    /\ pc[p] = "pm_taskget"
    /\ events' = IF taskRowOfMessage(loc[p].lastID) # {}
                 THEN broadcastEvent(events,
                        [type |-> "task_created", cid |-> loc[p].cid,
                         id |-> (CHOOSE t \in taskRowOfMessage(loc[p].lastID) : TRUE).id])
                 ELSE events
    /\ respond(p, 200)
    /\ UNCHANGED <<messages, replies, tasks, nextId, nCmds, taskLog>>
    /\ UNCHANGED notStore


\* ------------------------------ POST /messages/:messageId/replies (692-773)
PostReply(p) ==
    \E u \in Users, messageId \in MessageIds, body \in StoreBodies :
        /\ nCmds < MaxStoreCmds
        /\ start(p, "pr_parent", [cmd |-> "PostReply", user |-> u, messageId |-> messageId,
                                  createTask |-> body.createTask, raw |-> body.content]
                                 @@ postPayload(body))
        /\ UNCHANGED <<messages, replies, tasks, nextId, events, done, taskLog>>
        /\ UNCHANGED notStore

\* SELECT id, thread_id FROM messages WHERE id = ?; 404 without the parent,
\* 400 when the content to store is empty
pr_parent(p) ==
    /\ pc[p] = "pr_parent"
    /\ IF ~ \E m \in messages : m.id = loc[p].messageId
       THEN respond(p, 404)
       ELSE IF loc[p].content = <<>>
       THEN respond(p, 400)
       ELSE /\ goto(p, "pr_insert",
                    loc[p] @@ [threadId |-> (CHOOSE m \in messages : m.id = loc[p].messageId).thread_id])
            /\ UNCHANGED done
    /\ UNCHANGED <<messages, replies, tasks, nextId, events, nCmds, taskLog>>
    /\ UNCHANGED notStore

\* INSERT INTO replies (message_id, user_id, content)
pr_insert(p) ==
    /\ pc[p] = "pr_insert"
    /\ replies' = replies \cup {[id |-> nextId.replies, message_id |-> loc[p].messageId,
                                 user_id |-> loc[p].user, content |-> loc[p].content]}
    /\ nextId' = [nextId EXCEPT !.replies = @ + 1]
    /\ goto(p, "pr_get", loc[p] @@ [lastID |-> nextId.replies])
    /\ UNCHANGED <<messages, tasks, events, done, nCmds, taskLog>>
    /\ UNCHANGED notStore

\* SELECT the new reply JOIN users; 500 without it
pr_get(p) ==
    /\ pc[p] = "pr_get"
    /\ IF \E r \in replies : r.id = loc[p].lastID /\ \E u \in users : u.id = r.user_id
       THEN goto(p, "pr_meta",
                 loc[p] @@ [rowContent |->
                                (CHOOSE r \in replies : r.id = loc[p].lastID).content])
            /\ UNCHANGED done
       ELSE respond(p, 500)
    /\ UNCHANGED <<messages, replies, tasks, nextId, events, nCmds, taskLog>>
    /\ UNCHANGED notStore

\* SELECT threadMeta of the parent's thread, broadcast reply_created
pr_meta(p) ==
    /\ pc[p] = "pr_meta"
    /\ events' = IF threadMeta(loc[p].threadId) # {}
                 THEN broadcastEvent(events, [type |-> "reply_created", cid |-> loc[p].cid,
                                              id |-> loc[p].lastID])
                 ELSE events
    /\ IF loc[p].shouldCreateTask /\ loc[p].taskTitle # <<>>
       THEN goto(p, "pr_info", loc[p]) /\ UNCHANGED done
       ELSE respond(p, 200)
    /\ UNCHANGED <<messages, replies, tasks, nextId, nCmds, taskLog>>
    /\ UNCHANGED notStore

\* SELECT channel_id FROM threads WHERE id = parent.thread_id
pr_info(p) ==
    /\ pc[p] = "pr_info"
    /\ IF \E t \in threads : t.id = loc[p].threadId
       THEN /\ goto(p, "pr_taskins",
                    loc[p] @@ [channelId |-> (CHOOSE t \in threads : t.id = loc[p].threadId).channel_id])
            /\ UNCHANGED done
       ELSE respond(p, 200)
    /\ UNCHANGED <<messages, replies, tasks, nextId, events, nCmds, taskLog>>
    /\ UNCHANGED notStore

\* INSERT OR IGNORE INTO tasks (messageId, ...); only inserted.changes > 0
\* goes on to select and announce the task
pr_taskins(p) ==
    /\ pc[p] = "pr_taskins"
    /\ LET row == newTask(p, loc[p].messageId, loc[p].channelId, loc[p].threadId)
       IN /\ taskInsertStep(p, row)
          /\ IF insertOrIgnoreTask(row) # tasks
             THEN goto(p, "pr_taskget", loc[p]) /\ UNCHANGED done
             ELSE respond(p, 200)
    /\ UNCHANGED <<messages, replies, events, nCmds>>
    /\ UNCHANGED notStore

pr_taskget(p) ==
    /\ pc[p] = "pr_taskget"
    /\ events' = IF taskRowOfMessage(loc[p].messageId) # {}
                 THEN broadcastEvent(events,
                        [type |-> "task_created", cid |-> loc[p].cid,
                         id |-> (CHOOSE t \in taskRowOfMessage(loc[p].messageId) : TRUE).id])
                 ELSE events
    /\ respond(p, 200)
    /\ UNCHANGED <<messages, replies, tasks, nextId, nCmds, taskLog>>
    /\ UNCHANGED notStore

\* ------------------------------------ DELETE /messages/:messageId (633-672)
DeleteMessage(p) ==
    \E u \in Users, messageId \in MessageIds :
        /\ nCmds < MaxStoreCmds
        /\ start(p, "dm_get", [cmd |-> "DeleteMessage", user |-> u, messageId |-> messageId])
        /\ UNCHANGED <<messages, replies, tasks, nextId, events, done, taskLog>>
        /\ UNCHANGED notStore

\* SELECT id, thread_id, user_id FROM messages: 404 when missing, 403 when
\* the requester is not the author
dm_get(p) ==
    /\ pc[p] = "dm_get"
    /\ IF ~ \E m \in messages : m.id = loc[p].messageId
       THEN respond(p, 404)
       ELSE LET existing == CHOOSE m \in messages : m.id = loc[p].messageId
            IN IF existing.user_id # loc[p].user
               THEN respond(p, 403)
               ELSE /\ goto(p, "dm_meta", loc[p] @@ [threadId |-> existing.thread_id])
                    /\ UNCHANGED done
    /\ UNCHANGED <<messages, replies, tasks, nextId, events, nCmds, taskLog>>
    /\ UNCHANGED notStore

dm_meta(p) ==
    /\ pc[p] = "dm_meta"
    /\ goto(p, "dm_replies", loc[p] @@ [threadMeta |-> threadMeta(loc[p].threadId) # {}])
    /\ UNCHANGED <<messages, replies, tasks, nextId, events, done, nCmds, taskLog>>
    /\ UNCHANGED notStore

\* DELETE FROM replies WHERE message_id = ?
dm_replies(p) ==
    /\ pc[p] = "dm_replies"
    /\ replies' = {r \in replies : r.message_id # loc[p].messageId}
    /\ goto(p, "dm_tasks", loc[p])
    /\ UNCHANGED <<messages, tasks, nextId, events, done, nCmds, taskLog>>
    /\ UNCHANGED notStore

\* DELETE FROM tasks WHERE message_id = ?
dm_tasks(p) ==
    /\ pc[p] = "dm_tasks"
    /\ tasks' = {t \in tasks : t.message_id # loc[p].messageId}
    /\ goto(p, "dm_message", loc[p])
    /\ UNCHANGED <<messages, replies, nextId, events, done, nCmds, taskLog>>
    /\ UNCHANGED notStore

\* DELETE FROM messages WHERE id = ?, then message_deleted and the answer
dm_message(p) ==
    /\ pc[p] = "dm_message"
    /\ messages' = {m \in messages : m.id # loc[p].messageId}
    /\ events' = IF loc[p].threadMeta
                 THEN broadcastEvent(events, [type |-> "message_deleted", cid |-> loc[p].cid,
                                              id |-> loc[p].messageId])
                 ELSE events
    /\ respond(p, 200)
    /\ UNCHANGED <<replies, tasks, nextId, nCmds, taskLog>>
    /\ UNCHANGED notStore

\* --------------------------------------- DELETE /tasks/:taskId (1201-1220)
DeleteTask(p) ==
    \E u \in Users, taskId \in TaskIds :
        /\ nCmds < MaxStoreCmds
        /\ start(p, "dt_get", [cmd |-> "DeleteTask", user |-> u, taskId |-> taskId])
        /\ UNCHANGED <<messages, replies, tasks, nextId, events, done, taskLog>>
        /\ UNCHANGED notStore

dt_get(p) ==
    /\ pc[p] = "dt_get"
    /\ IF \E t \in tasks : t.id = loc[p].taskId
       THEN goto(p, "dt_delete", loc[p]) /\ UNCHANGED done
       ELSE respond(p, 404)
    /\ UNCHANGED <<messages, replies, tasks, nextId, events, nCmds, taskLog>>
    /\ UNCHANGED notStore

\* DELETE FROM tasks WHERE id = ?, then task_deleted and the answer
dt_delete(p) ==
    /\ pc[p] = "dt_delete"
    /\ tasks' = {t \in tasks : t.id # loc[p].taskId}
    /\ events' = broadcastEvent(events, [type |-> "task_deleted", cid |-> loc[p].cid,
                                         id |-> loc[p].taskId])
    /\ respond(p, 200)
    /\ UNCHANGED <<messages, replies, nextId, nCmds, taskLog>>
    /\ UNCHANGED notStore

NextStore ==
    \E p \in Procs :
        \/ PostMessage(p) /\ streamWrites
        \/ pm_insert(p) /\ streamWrites
        \/ pm_get(p) /\ streamWrites
        \/ pm_meta(p) /\ streamWrites
        \/ pm_info(p) /\ streamWrites
        \/ pm_taskins(p) /\ streamWrites
        \/ pm_taskget(p) /\ streamWrites
        \/ PostReply(p) /\ streamWrites
        \/ pr_parent(p) /\ streamWrites
        \/ pr_insert(p) /\ streamWrites
        \/ pr_get(p) /\ streamWrites
        \/ pr_meta(p) /\ streamWrites
        \/ pr_info(p) /\ streamWrites
        \/ pr_taskins(p) /\ streamWrites
        \/ pr_taskget(p) /\ streamWrites
        \/ DeleteMessage(p) /\ streamWrites
        \/ dm_get(p) /\ streamWrites
        \/ dm_meta(p) /\ streamWrites
        \/ dm_replies(p) /\ streamWrites
        \/ dm_tasks(p) /\ streamWrites
        \/ dm_message(p) /\ streamWrites
        \/ DeleteTask(p) /\ streamWrites
        \/ dt_get(p) /\ streamWrites
        \/ dt_delete(p) /\ streamWrites

SpecStore == Init /\ [][NextStore]_vars

\* C2: at most one task row per originating message; a row of tasks is still
\* as it was inserted; and task_created is emitted only by the command whose
\* trigger inserted the row (a trigger on a message that already has a task
\* emits none).
C2_OneTaskPerMessage ==
    /\ \A t1 \in tasks, t2 \in tasks : t1.message_id = t2.message_id => t1 = t2
    /\ \A t \in tasks : \E k \in taskLog : k.row = t
    /\ \A i \in 1..Len(events) :
           events[i].type = "task_created" =>
               \E k \in taskLog : k.row.id = events[i].id /\ k.cid = events[i].cid

\* C3: over its whole lifetime a message is the origin of at most one task
\* row: no command inserts a second row for a message that once had one.
C3_OneTaskEver ==
    \A k1 \in taskLog, k2 \in taskLog :
        k1.row.message_id = k2.row.message_id => k1 = k2

\* C4: when a Delete message command of the author answers, the message, its
\* replies and its task are gone and exactly one message_deleted event for
\* the message has been emitted.
C4_DeleteMessageCascades ==
    [][\A p \in Procs :
          (pc[p] = "dm_message" /\ pc'[p] = "idle") =>
              /\ ~ \E r \in replies' : r.message_id = loc[p].messageId
              /\ ~ \E t \in tasks' : t.message_id = loc[p].messageId
              /\ ~ \E m \in messages' : m.id = loc[p].messageId
              /\ Cardinality({i \in 1..Len(events') :
                                 /\ events'[i].type = "message_deleted"
                                 /\ events'[i].id = loc[p].messageId}) = 1]_vars

\* C5: in every reachable state every reply has its parent message and every
\* task has its originating message.
C5_NoOrphans ==
    /\ \A r \in replies : \E m \in messages : m.id = r.message_id
    /\ \A t \in tasks : \E m \in messages : m.id = t.message_id

\* ------------------------------------------- Post message, every content
\* longest content of a Post message request in SpecPost
MaxContentLen == 3
\* Post message commands issued in one behaviour of SpecPost
MaxPostCmds == 1

\* z.string().min(1): every non-empty string over Chars
Contents == UNION {[1..n -> Chars] : n \in 1..MaxContentLen}

PostAnyMessage(p) ==
    \E u \in Users, threadId \in ThreadIds, content \in Contents, createTask \in BOOLEAN :
        /\ nCmds < MaxPostCmds
        /\ start(p, "pm_insert", [cmd |-> "PostMessage", user |-> u, threadId |-> threadId,
                                  createTask |-> createTask, raw |-> content]
                                 @@ postPayload([content |-> content, createTask |-> createTask]))
        /\ UNCHANGED <<messages, replies, tasks, nextId, events, done, taskLog>>
        /\ UNCHANGED notStore

NextPost ==
    \E p \in Procs :
        \/ PostAnyMessage(p) /\ streamWrites
        \/ pm_insert(p) /\ streamWrites
        \/ pm_get(p) /\ streamWrites
        \/ pm_meta(p) /\ streamWrites
        \/ pm_info(p) /\ streamWrites
        \/ pm_taskins(p) /\ streamWrites
        \/ pm_taskget(p) /\ streamWrites

SpecPost == Init /\ [][NextPost]_vars

\* the task rows command c inserted
TasksOf(c) == {k.row : k \in {j \in taskLog : j.cid = c}}

\* C9: a Post message that has answered created a task iff (createTask or the
\* content holds the standalone :task token) and the extracted title is not
\* empty; the task is open, linked to the new message, its thread, that
\* thread's channel and the poster; content that is blank after flag
\* stripping stores the message and creates no task.
C9_TaskIffTriggeredAndTitled ==
    \A c \in DOMAIN done :
        done[c].cmd = "PostMessage" =>
            LET req == done[c].req
            IN /\ (TasksOf(c) # {}) <=>
                      ((req.createTask \/ hasTaskFlag(req.raw)) /\ req.taskTitle # <<>>)
               /\ \A t \in TasksOf(c) :
                      /\ t.message_id = req.lastID
                      /\ t.status = "open"
                      /\ t.thread_id = req.threadId
                      /\ \E th \in threads : th.id = req.threadId /\ th.channel_id = t.channel_id
                      /\ t.created_by = req.user
               /\ stripTaskFlag(req.raw) = <<>> =>
                      /\ \E m \in messages : m.id = req.lastID
                      /\ TasksOf(c) = {}

\* C12: in every reachable state every persisted message and every persisted
\* reply has content that is not empty after trimming, also after a Post
\* message whose content is white space only or only the :task flag.
C12_NoEmptyContent ==
    /\ \A m \in messages : trim(m.content) # <<>>
    /\ \A r \in replies : trim(r.content) # <<>>

\* ------------------------------------------------ POST /tasks (997-1111)
\* Create task commands issued in one behaviour of SpecDash
MaxDashCmds == 2
TASK_BOT_NAME == "TaskBot"
TASK_BOT_EMAIL == "taskbot@system.local"
\* the default template; "{title}" and "{creator}" are its two placeholders
DEFAULT_TASK_BOT_MESSAGE_TEMPLATE == <<"Task created: \"", "{title}", "\" by ", "{creator}">>

RECURSIVE replacePlaceholders(_, _, _)
replacePlaceholders(source, title, creator) ==
    IF source = <<>> THEN <<>>
    ELSE (IF Head(source) = "{title}" THEN title
          ELSE IF Head(source) = "{creator}" THEN <<creator>>
          ELSE <<Head(source)>>) \o replacePlaceholders(Tail(source), title, creator)

\* server.ts renderTaskBotMessage (156-162); template <<>> stands for undefined
renderTaskBotMessage(template, title, creator) ==
    LET source == trim(template)
    IN IF source = <<>>
       THEN replacePlaceholders(DEFAULT_TASK_BOT_MESSAGE_TEMPLATE, title, creator)
       ELSE replacePlaceholders(source, title, creator)

notDash == <<channels, threads, replies, created, manual, taskLog, sessVars>>

\* the synchronous head: title and note are trimmed, an empty title is a 400
CreateTask(p) ==
    \E u \in Users, threadId \in ThreadIds, rawTitle \in {<<"a">>, <<" ">>},
       rawNote \in {<<>>, <<"a">>}, botMessage \in {<<>>, <<"{title}">>} :
        /\ nCmds < MaxDashCmds
        /\ start(p, "tk_meta", [cmd |-> "CreateTask", user |-> u, threadId |-> threadId,
                                title |-> trim(rawTitle), note |-> trim(rawNote),
                                botMessage |-> botMessage,
                                messageID |-> 0, botMessageID |-> 0])
        /\ UNCHANGED <<users, messages, tasks, nextId, events, done>>
        /\ UNCHANGED notDash

\* 1013-1027: empty title, then SELECT threadMeta: 404 without the thread
tk_meta(p) ==
    /\ pc[p] = "tk_meta"
    /\ IF loc[p].title = <<>>
       THEN respond(p, 400)
       ELSE IF threadMeta(loc[p].threadId) = {}
       THEN respond(p, 404)
       ELSE /\ goto(p, "tk_msgins",
                    loc[p] @@ [channelId |-> (CHOOSE t \in threadMeta(loc[p].threadId) : TRUE).channel_id])
            /\ UNCHANGED done
    /\ UNCHANGED <<users, messages, tasks, nextId, events, nCmds>>
    /\ UNCHANGED notDash

\* INSERT the origin message: title, or title "\n" note
tk_msgins(p) ==
    /\ pc[p] = "tk_msgins"
    /\ LET messageContent == IF loc[p].note # <<>>
                             THEN loc[p].title \o <<"\n">> \o loc[p].note
                             ELSE loc[p].title
       IN messages' = messages \cup {[id |-> nextId.messages, thread_id |-> loc[p].threadId,
                                      user_id |-> loc[p].user, content |-> messageContent]}
    /\ nextId' = [nextId EXCEPT !.messages = @ + 1]
    /\ goto(p, "tk_msgget", [loc[p] EXCEPT !.messageID = nextId.messages])
    /\ UNCHANGED <<users, tasks, events, done, nCmds>>
    /\ UNCHANGED notDash

\* a handler that does not announce the origin message
tk_msggetSilent(p) ==
    /\ pc[p] = "tk_msgget"
    /\ goto(p, "tk_taskins", loc[p])
    /\ UNCHANGED <<users, messages, tasks, nextId, events, done, nCmds>>
    /\ UNCHANGED notDash

\* SELECT the origin message and broadcast message_created
tk_msgget(p) ==
    /\ pc[p] = "tk_msgget"
    /\ events' = IF messageRow(loc[p].messageID) # {}
                 THEN broadcastEvent(events, [type |-> "message_created", cid |-> loc[p].cid,
                                              id |-> loc[p].messageID])
                 ELSE events
    /\ goto(p, "tk_taskins", loc[p])
    /\ UNCHANGED <<users, messages, tasks, nextId, done, nCmds>>
    /\ UNCHANGED notDash

\* INSERT INTO tasks (no OR IGNORE): a second row for the message violates
\* UNIQUE(message_id) and rejects
tk_taskins(p) ==
    /\ pc[p] = "tk_taskins"
    /\ IF \E t \in tasks : t.message_id = loc[p].messageID
       THEN reject(p) /\ UNCHANGED <<tasks, nextId>>
       ELSE /\ tasks' = tasks \cup {[id |-> nextId.tasks, message_id |-> loc[p].messageID,
                                      channel_id |-> loc[p].channelId, thread_id |-> loc[p].threadId,
                                      created_by |-> loc[p].user, title |-> loc[p].title,
                                      note |-> loc[p].note, status |-> "open",
                                      updated_at |-> now]}
            /\ nextId' = [nextId EXCEPT !.tasks = @ + 1]
            /\ goto(p, "tk_taskget", loc[p])
            /\ UNCHANGED done
    /\ UNCHANGED <<users, messages, events, nCmds>>
    /\ UNCHANGED notDash

\* SELECT the task: 500 without it, else broadcast task_created
tk_taskget(p) ==
    /\ pc[p] = "tk_taskget"
    /\ IF taskRowOfMessage(loc[p].messageID) = {}
       THEN respond(p, 500) /\ UNCHANGED events
       ELSE /\ events' = broadcastEvent(events,
                            [type |-> "task_created", cid |-> loc[p].cid,
                             id |-> (CHOOSE t \in taskRowOfMessage(loc[p].messageID) : TRUE).id])
            /\ goto(p, "tk_botget", loc[p])
            /\ UNCHANGED done
    /\ UNCHANGED <<users, messages, tasks, nextId, nCmds>>
    /\ UNCHANGED notDash

\* getOrCreateTaskBotUserId (204-206): SELECT id FROM users WHERE email = ?
tk_botget(p) ==
    /\ pc[p] = "tk_botget"
    /\ IF \E b \in users : b.email = TASK_BOT_EMAIL
       THEN goto(p, "tk_botmsgins",
                 loc[p] @@ [taskBotId |-> (CHOOSE b \in users : b.email = TASK_BOT_EMAIL).id])
       ELSE goto(p, "tk_botins", loc[p])
    /\ UNCHANGED <<users, messages, tasks, nextId, events, done, nCmds>>
    /\ UNCHANGED notDash

\* getOrCreateTaskBotUserId (207-212): INSERT INTO users; users.email is
\* UNIQUE (db.ts 75), so the insert rejects when the row is there by now
tk_botins(p) ==
    /\ pc[p] = "tk_botins"
    /\ IF \E b \in users : b.email = TASK_BOT_EMAIL
       THEN reject(p) /\ UNCHANGED <<users, nextId>>
       ELSE /\ users' = users \cup {[id |-> nextId.users, name |-> TASK_BOT_NAME,
                                      email |-> TASK_BOT_EMAIL, password |-> <<"__system__">>]}
            /\ nextId' = [nextId EXCEPT !.users = @ + 1]
            /\ goto(p, "tk_botmsgins", loc[p] @@ [taskBotId |-> nextId.users])
            /\ UNCHANGED done
    /\ UNCHANGED <<messages, tasks, events, nCmds>>
    /\ UNCHANGED notDash

\* INSERT the TaskBot message
tk_botmsgins(p) ==
    /\ pc[p] = "tk_botmsgins"
    /\ messages' = messages \cup
           {[id |-> nextId.messages, thread_id |-> loc[p].threadId, user_id |-> loc[p].taskBotId,
             content |-> renderTaskBotMessage(loc[p].botMessage, loc[p].title,
                                              UserName(loc[p].user))]}
    /\ nextId' = [nextId EXCEPT !.messages = @ + 1]
    /\ goto(p, "tk_botmsgget", [loc[p] EXCEPT !.botMessageID = nextId.messages])
    /\ UNCHANGED <<users, tasks, events, done, nCmds>>
    /\ UNCHANGED notDash

\* SELECT the TaskBot message, broadcast the second message_created, answer
tk_botmsgget(p) ==
    /\ pc[p] = "tk_botmsgget"
    /\ events' = IF messageRow(loc[p].botMessageID) # {}
                 THEN broadcastEvent(events, [type |-> "message_created", cid |-> loc[p].cid,
                                              id |-> loc[p].botMessageID])
                 ELSE events
    /\ respond(p, 200)
    /\ UNCHANGED <<users, messages, tasks, nextId, nCmds>>
    /\ UNCHANGED notDash

NextDash ==
    \E p \in Procs :
        \/ CreateTask(p) /\ streamWrites
        \/ tk_meta(p) /\ streamWrites
        \/ tk_msgins(p) /\ streamWrites
        \/ tk_msgget(p) /\ streamWrites
        \/ tk_taskins(p) /\ streamWrites
        \/ tk_taskget(p) /\ streamWrites
        \/ tk_botget(p) /\ streamWrites
        \/ tk_botins(p) /\ streamWrites
        \/ tk_botmsgins(p) /\ streamWrites
        \/ tk_botmsgget(p) /\ streamWrites

SpecDash == Init /\ [][NextDash]_vars

\* the events command c emitted
EventsOf(c) == {i \in 1..Len(events) : events[i].cid = c}

\* C10: a Create task from dashboard that has ended (answered or not) has
\* either persisted the origin message, the task and the TaskBot message and
\* emitted three events, or persisted none of them and emitted no event.
C10_CreateTaskAllOrNothing ==
    \A c \in DOMAIN done :
        done[c].cmd = "CreateTask" =>
            LET req == done[c].req
                origin == \E m \in messages : m.id = req.messageID
                task == \E t \in tasks : t.message_id = req.messageID
                bot == \E m \in messages : m.id = req.botMessageID
            IN \/ origin /\ task /\ bot /\ Cardinality(EventsOf(c)) = 3
               \/ ~origin /\ ~task /\ ~bot /\ Cardinality(EventsOf(c)) = 0

\* the handlers are scheduled fairly: an awaited store call settles and the
\* event loop resumes the handler that waits for it
SpecDashLive == SpecDash /\ WF_vars(NextDash)

\* C11: every Create task from dashboard command that the server has started
\* eventually has a response sent to its caller (status 0 stands for a
\* handler that ended without sending one), also when one of its store
\* writes fails partway.
C11_EveryCommandAnswers ==
    \A c \in 1..MaxDashCmds :
        (nCmds >= c) ~> (c \in DOMAIN done /\ done[c].status # 0)

\* ----------------------------------------------------------- sessions
SESSION_TTL_DAYS == 7
\* the clock stops at MaxTime days
MaxTime == 8
\* sessions issued in one behaviour of SpecSession
MaxSessions == 1
\* commands (logins and authenticated requests) in one behaviour of SpecSession
MaxAuthCmds == 4

notSession == <<users, channels, threads, messages, replies, tasks, nextId, events,
                created, manual, taskLog>>

\* x-session-id: <<>> when the header is absent, <<0>> a token never issued
Tokens == {<<>>} \cup {<<k>> : k \in 0..MaxSessions}

\* DELETE FROM sessions WHERE expires_at <= datetime('now') OR revoked_at IS
\* NOT NULL (220): the rows that stay
purgeSessions == {s \in sessions : ~ (s.expires_at <= now \/ s.revoked_at # <<>>)}

\* a validation that forgets revoked_at
currentUserIgnoringRevocation(token) ==
    {s \in sessions : /\ <<s.id>> = token
                      /\ s.expires_at > now
                      /\ \E u \in users : u.id = s.user_id}

\* the SELECT of getCurrentUser (221-229): the rows that authenticate token
currentUser(token) ==
    {s \in sessions : /\ <<s.id>> = token
                      /\ s.revoked_at = <<>>
                      /\ s.expires_at > now
                      /\ \E u \in users : u.id = s.user_id}

\* a slide that extends the previous expiry instead of restarting the window
slideFromPreviousExpiry(token) ==
    {IF <<s.id>> = token THEN [s EXCEPT !.expires_at = @ + SESSION_TTL_DAYS] ELSE s
        : s \in sessions}

\* a slide that also clears the revocation mark
slideClearingRevocation(token) ==
    {IF <<s.id>> = token
     THEN [s EXCEPT !.expires_at = now + SESSION_TTL_DAYS, !.revoked_at = <<>>] ELSE s
        : s \in sessions}

\* UPDATE sessions SET expires_at = datetime('now', '+TTL days') WHERE id = ? (239)
slideSession(token) ==
    {IF <<s.id>> = token THEN [s EXCEPT !.expires_at = now + SESSION_TTL_DAYS] ELSE s
        : s \in sessions}

\* UPDATE sessions SET revoked_at = datetime('now') WHERE id = ? (298)
revokeSession(token) ==
    {IF <<s.id>> = token THEN [s EXCEPT !.revoked_at = <<now>>] ELSE s : s \in sessions}

\* issueSession (195-202): a fresh random id, expiry a full TTL from now
issueSession(sessionId, userId) ==
    sessions \cup {[id |-> sessionId, user_id |-> userId,
                    expires_at |-> now + SESSION_TTL_DAYS, revoked_at |-> <<>>]}

\* the clock advances by one day, between any two steps
Tick ==
    /\ now < MaxTime
    /\ now' = now + 1
    /\ UNCHANGED <<sessions, sessLog, revoked, purged, pc, loc, done, nCmds>>
    /\ UNCHANGED notSession

\* ------------------------------------------- POST /auth/login (274-293)
Login(p) ==
    \E email \in {UserEmail(1)}, password \in {UserPassword(1), "wrong"} :
        /\ nCmds < MaxAuthCmds
        /\ Cardinality(DOMAIN sessLog) + Cardinality({q \in Procs : loc[q].cmd = "Login"})
               < MaxSessions
        /\ start(p, "lg_get", [cmd |-> "Login", email |-> email, password |-> password])
        /\ UNCHANGED <<sessVars, done>>
        /\ UNCHANGED notSession

\* z.string().email() (276) over the addresses the model draws
isEmail(email) == email \notin MalformedEmails

\* a lookup that tells the caller which of the two checks failed
lg_getNamingCause(p) ==
    /\ pc[p] = "lg_get"
    /\ IF ~ isEmail(loc[p].email) \/ loc[p].password = ""
       THEN respondWith(p, 400, loc[p] @@ [error |-> "flatten"])
       ELSE IF ~ \E u \in users : u.email = loc[p].email
       THEN respondWith(p, 404, loc[p] @@ [error |-> "User not found."])
       ELSE IF \E u \in users : u.email = loc[p].email /\ u.password = hashPassword(loc[p].password)
       THEN /\ goto(p, "lg_issue",
                    loc[p] @@ [userId |-> (CHOOSE u \in users : u.email = loc[p].email).id])
            /\ UNCHANGED done
       ELSE respondWith(p, 401, loc[p] @@ [error |-> "Invalid credentials."])
    /\ UNCHANGED <<sessVars, nCmds>>
    /\ UNCHANGED notSession

\* schema.safeParse: 400 with the flattened zod error; then
\* SELECT * FROM users WHERE email = ?; 401 { error: "Invalid credentials." }
\* for an unknown email or another hash
lg_get(p) ==
    /\ pc[p] = "lg_get"
    /\ IF ~ isEmail(loc[p].email) \/ loc[p].password = ""
       THEN respondWith(p, 400, loc[p] @@ [error |-> "flatten"])
       ELSE IF \E u \in users : u.email = loc[p].email /\ u.password = hashPassword(loc[p].password)
       THEN /\ goto(p, "lg_issue",
                    loc[p] @@ [userId |-> (CHOOSE u \in users : u.email = loc[p].email).id])
            /\ UNCHANGED done
       ELSE respondWith(p, 401, loc[p] @@ [error |-> "Invalid credentials."])
    /\ UNCHANGED <<sessVars, nCmds>>
    /\ UNCHANGED notSession

\* issueSession, then res.json with the session id
lg_issue(p) ==
    /\ pc[p] = "lg_issue"
    /\ LET sessionId == Cardinality(DOMAIN sessLog) + 1
       IN /\ sessions' = issueSession(sessionId, loc[p].userId)
          /\ sessLog' = sessLog @@ (sessionId :> [issued |-> now, lastUse |-> now])
    /\ respond(p, 200)
    /\ UNCHANGED <<now, revoked, purged, nCmds>>
    /\ UNCHANGED notSession

\* ------------- requireAuth (232-242) in front of /auth/me and /auth/logout
\* late: the request starts after a Logout has revoked the session of its token
Request(p) ==
    \E token \in Tokens, route \in {"me", "logout"} :
        /\ nCmds < MaxAuthCmds
        /\ token # <<>> => token[1] <= Cardinality(DOMAIN sessLog)
        /\ start(p, "ra_purge", [cmd |-> route, sessionId |-> token,
                                 late |-> token # <<>> /\ token[1] \in revoked,
                                 sawRevoked |-> FALSE, staleSlide |-> FALSE])
        /\ UNCHANGED <<sessVars, done>>
        /\ UNCHANGED notSession

\* getCurrentUser: no session id is undefined (401); else the purge runs
ra_purge(p) ==
    /\ pc[p] = "ra_purge"
    /\ IF loc[p].sessionId = <<>>
       THEN respond(p, 401) /\ UNCHANGED <<sessions, purged>>
       ELSE /\ sessions' = purgeSessions
            /\ purged' = purged \cup {s.id : s \in sessions \ purgeSessions}
            /\ goto(p, "ra_select", loc[p])
            /\ UNCHANGED done
    /\ UNCHANGED <<now, sessLog, revoked, nCmds>>
    /\ UNCHANGED notSession

\* the SELECT: no row is 401 Unauthorized, a row goes on to the slide;
\* sawRevoked: the table held a revoked, unexpired row for the token
ra_select(p) ==
    /\ pc[p] = "ra_select"
    /\ LET seen == [loc[p] EXCEPT !.sawRevoked =
                        \E s \in sessions : /\ <<s.id>> = loc[p].sessionId
                                             /\ s.revoked_at # <<>>
                                             /\ s.expires_at > now]
       IN IF currentUser(loc[p].sessionId) # {}
          THEN goto(p, "ra_slide", seen) /\ UNCHANGED done
          ELSE respondWith(p, 401, seen)
    /\ UNCHANGED <<sessVars, nCmds>>
    /\ UNCHANGED notSession

\* the slide, then the route: /auth/me answers, /auth/logout revokes next;
\* staleSlide: the UPDATE ran for a session revoked or purged by then
ra_slide(p) ==
    /\ pc[p] = "ra_slide"
    /\ sessions' = slideSession(loc[p].sessionId)
    /\ sessLog' = [k \in DOMAIN sessLog |->
                     IF <<k>> = loc[p].sessionId /\ \E s \in sessions : s.id = k
                     THEN [sessLog[k] EXCEPT !.lastUse = now] ELSE sessLog[k]]
    /\ LET slid == [loc[p] EXCEPT !.staleSlide = loc[p].sessionId[1] \in revoked \cup purged]
       IN IF loc[p].cmd = "logout"
          THEN goto(p, "lo_revoke", slid) /\ UNCHANGED done
          ELSE respondWith(p, 200, slid)
    /\ UNCHANGED <<now, revoked, purged, nCmds>>
    /\ UNCHANGED notSession

\* POST /auth/logout (295-301): the revocation, then res.json
lo_revoke(p) ==
    /\ pc[p] = "lo_revoke"
    /\ sessions' = revokeSession(loc[p].sessionId)
    /\ revoked' = revoked \cup {s.id : s \in {r \in sessions : <<r.id>> = loc[p].sessionId}}
    /\ respond(p, 200)
    /\ UNCHANGED <<now, sessLog, purged, nCmds>>
    /\ UNCHANGED notSession

NextSession ==
    \/ Tick /\ streamWrites
    \/ \E p \in Procs :
        \/ Login(p) /\ streamWrites
        \/ lg_get(p) /\ streamWrites
        \/ lg_issue(p) /\ streamWrites
        \/ Request(p) /\ streamWrites
        \/ ra_purge(p) /\ streamWrites
        \/ ra_select(p) /\ streamWrites
        \/ ra_slide(p) /\ streamWrites
        \/ lo_revoke(p) /\ streamWrites

SpecSession == Init /\ [][NextSession]_vars

\* the responses of the requests behind requireAuth that reached the SELECT
Validated == {c \in DOMAIN done : done[c].cmd \in {"me", "logout"} /\ done[c].req.sessionId # <<>>}

\* the specification's notion: the row exists, is not revoked, and now < expires_at
Usable(token) ==
    \E s \in sessions : <<s.id>> = token /\ s.revoked_at = <<>> /\ now < s.expires_at

\* C6: the SELECT of a request authenticates it (the handler goes on to the
\* slide) if and only if, at that moment, the session row of its token
\* exists, has revoked_at null and now < expires_at; an expired row fails
\* even if never revoked and a revoked row fails even if not expired; a
\* request without a token is rejected before the SELECT.
C6_UsableIffValid ==
    [][\A p \in Procs :
        /\ (pc[p] = "ra_purge" /\ pc'[p] # "ra_purge" /\ loc[p].sessionId = <<>>) =>
              pc'[p] = "idle"
        /\ (pc[p] = "ra_select" /\ pc'[p] # "ra_select") =>
              /\ (pc'[p] = "ra_slide") <=> Usable(loc[p].sessionId)
              /\ (pc'[p] = "idle") <=> ~ Usable(loc[p].sessionId)
              /\ (\E s \in sessions : <<s.id>> = loc[p].sessionId /\ s.expires_at <= now)
                    => pc'[p] = "idle"
              /\ (\E s \in sessions : <<s.id>> = loc[p].sessionId /\ s.revoked_at # <<>>)
                    => pc'[p] = "idle"]_vars

\* a request was rejected on a row revoked but not yet expired, and a request
\* with the same token was authenticated
C6_Witness ==
    /\ \E c \in Validated :
           /\ done[c].status = 401
           /\ done[c].req.sawRevoked
    /\ \E c \in Validated : done[c].status = 200 /\ done[c].req.sessionId = <<1>>

\* C7: a session row always expires a full TTL after its last authenticated
\* use (issue or slide), whatever its previous expiry was; hence a request
\* less than a TTL after the last use of a live session is authenticated,
\* and a request a full TTL or more after the last use is rejected.
C7_SlideFullWindow ==
    [][/\ \A s \in sessions' : s.expires_at = sessLog'[s.id].lastUse + SESSION_TTL_DAYS
       /\ \A p \in Procs :
            (pc[p] = "ra_slide" /\ pc'[p] # "ra_slide") =>
                \A s \in sessions' : <<s.id>> = loc[p].sessionId =>
                    s.expires_at = now + SESSION_TTL_DAYS
       /\ \A p \in Procs :
            (pc[p] = "ra_select" /\ pc'[p] # "ra_select") =>
                \A k \in DOMAIN sessLog : <<k>> = loc[p].sessionId =>
                    /\ (k \notin revoked \cup purged
                          /\ now - sessLog[k].lastUse < SESSION_TTL_DAYS)
                          => pc'[p] = "ra_slide"
                    /\ now - sessLog[k].lastUse >= SESSION_TTL_DAYS => pc'[p] = "idle"]_vars

\* a session slid after its issue is still usable once the window it was
\* issued with is over
C7_Witness ==
    \E s \in sessions :
        /\ sessLog[s.id].lastUse > sessLog[s.id].issued
        /\ now >= sessLog[s.id].issued + SESSION_TTL_DAYS
        /\ Usable(<<s.id>>)
        /\ \E c \in Validated : done[c].status = 200 /\ done[c].req.sessionId = <<s.id>>

\* C8: a session that a Logout has revoked, or that the purge has deleted,
\* is never usable again, whatever slide runs afterwards; and a request that
\* starts after the revocation with that token is never authenticated.
C8_RevokedStaysUnusable ==
    /\ \A k \in revoked \cup purged : ~ Usable(<<k>>)
    /\ \A p \in Procs :
           (loc[p].cmd \in {"me", "logout"} /\ loc[p].late) => pc[p] \in {"ra_purge", "ra_select"}
    /\ \A c \in Validated : done[c].req.late => done[c].status = 401

\* a slide ran after the revocation or the purge of its session, and a
\* request that started after the revocation was rejected
C8_Witness ==
    /\ \E c \in Validated : done[c].req.staleSlide
    /\ \E c \in Validated : done[c].req.late /\ done[c].status = 401

\* ------------------------------------------------- GET /events (308-327)
notStream == <<users, channels, threads, messages, replies, tasks, nextId, events,
               pc, loc, done, nCmds, created, manual, taskLog, sessVars, page, view>>

\* what res.write sends first on a new stream
Connected == [type |-> "connected", cid |-> 0, id |-> 0]

\* the handler behind requireAuth: the response joins streamClients and the
\* "connected" payload is written (the heartbeat timer writes comments that
\* carry no event and is left out)
Subscribe(conn) ==
    /\ connState[conn] = "new"
    /\ \A k \in Conns : k < conn => connState[k] # "new"
    /\ streamClients' = streamClients \cup {conn}
    /\ written' = [written EXCEPT ![conn] = Append(@, Connected)]
    /\ connState' = [connState EXCEPT ![conn] = "open"]
    /\ subFrom' = [subFrom EXCEPT ![conn] = Len(events)]
    /\ UNCHANGED <<closedAt, failedAt>>
    /\ UNCHANGED notStream

\* req.on("close"): the response leaves streamClients and is ended
Close(conn) ==
    /\ connState[conn] = "open"
    /\ streamClients' = streamClients \ {conn}
    /\ connState' = [connState EXCEPT ![conn] = "closed"]
    /\ closedAt' = [closedAt EXCEPT ![conn] = Len(events)]
    /\ UNCHANGED <<written, subFrom, failedAt>>
    /\ UNCHANGED notStream

\* subscribers come and go while channel and thread commands emit events
NextStream ==
    \/ \E conn \in Conns :
        \/ Subscribe(conn)
        \/ Close(conn)
    \/ \E p \in Procs :
        \/ CreateChannel(p) /\ streamWrites
        \/ cc_insert(p) /\ streamWrites
        \/ cc_get(p) /\ streamWrites
        \/ cc_threadins(p) /\ streamWrites
        \/ cc_threadget(p) /\ streamWrites
        \/ CreateThread(p) /\ streamWrites
        \/ th_insert(p) /\ streamWrites
        \/ th_get(p) /\ streamWrites

SpecStream == Init /\ [][NextStream]_vars

\* the connections one of whose writes threw
FailedConns == {x.conn : x \in failedAt}

\* the number of the last event emitted while conn was a subscriber whose
\* writes had not failed
SubUpto(conn) ==
    IF conn \in streamClients THEN Len(events)
    ELSE IF conn \in FailedConns
    THEN (CHOOSE x \in failedAt : x.conn = conn).idx - 1
    ELSE closedAt[conn]

\* C13: what has been written to a connection is, after the "connected"
\* payload, exactly the events emitted from its subscription until it closed
\* or one of its writes failed, each once and in emission order; nothing is
\* written to a connection for an event emitted before it subscribed or
\* after it was removed.
C13_WrittenOnceInOrder ==
    \A conn \in Conns :
        written[conn] =
            IF connState[conn] = "new" THEN <<>>
            ELSE <<Connected>> \o SubSeq(events, subFrom[conn] + 1, SubUpto(conn))

\* one connection subscribed after an event and received a later one, and
\* another was closed before an event it therefore did not receive
C13_Witness ==
    /\ \E conn \in Conns : subFrom[conn] > 0 /\ Len(written[conn]) > 1
    /\ \E conn \in Conns : /\ connState[conn] = "closed"
                           /\ closedAt[conn] < Len(events)
                           /\ Len(written[conn]) > 1

\* C14: a write that throws removes that subscriber only: every open
\* connection whose writes never failed is still in the set, every other
\* subscriber of that moment has the event, and the command that emitted it
\* has answered 200 with the row the event announces in the store.
C14_FailedWriteDropsOnlyThatClient ==
    /\ \A conn \in Conns :
           connState[conn] = "open" => (conn \in streamClients <=> conn \notin FailedConns)
    /\ \A x \in failedAt :
           /\ \A conn \in Conns \ {x.conn} :
                  (connState[conn] # "new" /\ subFrom[conn] < x.idx /\ x.idx <= SubUpto(conn))
                      => \E i \in 1..Len(written[conn]) : written[conn][i] = events[x.idx]
           /\ LET e == events[x.idx]
              IN /\ e.cid \in DOMAIN done
                 /\ done[e.cid].status = 200
                 /\ e.type = "channel_created" => \E c \in channels : c.id = e.id
                 /\ e.type = "thread_created" => \E t \in threads : t.id = e.id

\* a write to one subscriber threw while another subscriber, still in the
\* set, received that event
C14_Witness ==
    \E x \in failedAt :
        \E conn \in streamClients :
            /\ conn # x.conn
            /\ \E i \in 1..Len(written[conn]) : written[conn][i] = events[x.idx]
            /\ done[events[x.idx].cid].status = 200

\* ------------------------------------------- the content parser, alone
\* longest content handed to the parser functions in SpecParse
MaxParseLen == 5
\* Chars and the carriage return
ParseChars == Chars \cup {"\r"}
ParseContents == UNION {[1..n -> ParseChars] : n \in 0..MaxParseLen}

notParse == <<users, channels, threads, messages, replies, tasks, nextId, events,
              done, nCmds, created, manual, taskLog, sessVars, streamVars>>

\* the state after construction, with one content string about to be parsed
InitParse ==
    /\ initDb
    /\ users = {[id |-> u, name |-> UserName(u), email |-> UserEmail(u),
                  password |-> hashPassword(UserPassword(u))] : u \in Users}
    /\ sessions = {}
    /\ now = 0
    /\ sessLog = <<>>
    /\ revoked = {}
    /\ purged = {}
    /\ nextId = [users |-> 3, channels |-> 2, threads |-> 2, messages |-> 1,
                 replies |-> 1, tasks |-> 1]
    /\ taskLog = {}
    /\ events = <<>>
    /\ \E content \in ParseContents :
          /\ pc = [p \in Procs |-> IF p = 1 THEN "input" ELSE "idle"]
          /\ loc = [p \in Procs |-> IF p = 1 THEN [cmd |-> "parse", content |-> content]
                                    ELSE Idle]
    /\ done = <<>>
    /\ nCmds = 0
    /\ created = {}
    /\ manual = {}
    /\ streamClients = {}
    /\ written = [c \in Conns |-> <<>>]
    /\ connState = [c \in Conns |-> "new"]
    /\ subFrom = [c \in Conns |-> 0]
    /\ closedAt = [c \in Conns |-> 0]
    /\ failedAt = {}
    /\ page = [c \in Conns |-> NoPage]
    /\ view = NoView

\* /(^|\s):task(\s|$)/i.test(content)
DetectFlag(p) ==
    /\ pc[p] = "input"
    /\ goto(p, "detected", loc[p] @@ [flag |-> hasTaskFlag(loc[p].content)])
    /\ UNCHANGED notParse

\* stripTaskFlag(content)
StripFlag(p) ==
    /\ pc[p] = "input"
    /\ goto(p, "stripped", loc[p] @@ [stripped |-> stripTaskFlag(loc[p].content)])
    /\ UNCHANGED notParse

\* parseTaskPayload(content)
ParsePayload(p) ==
    /\ pc[p] = "input"
    /\ goto(p, "parsed", loc[p] @@ [payload |-> parseTaskPayload(loc[p].content)])
    /\ UNCHANGED notParse

NextParse ==
    \E p \in Procs :
        \/ DetectFlag(p)
        \/ StripFlag(p)
        \/ ParsePayload(p)

SpecParse == InitParse /\ [][NextParse]_vars

\* the token :task stands alone at i: a string boundary or white space on
\* each side
StandaloneAt(s, i) ==
    /\ s[i] = "T"
    /\ i = 1 \/ IsSpace(s[i - 1])
    /\ i = Len(s) \/ IsSpace(s[i + 1])

\* C15: flag detection answers true exactly for the contents in which :task
\* stands as a token of its own, bounded on each side by white space or a
\* string boundary; it answers false when :task is only part of a longer
\* token (x:taskx, foo:taskbar).
C15_FlagIffStandaloneToken ==
    \A p \in Procs :
        pc[p] = "detected" =>
            (loc[p].flag <=> \E i \in 1..Len(loc[p].content) : StandaloneAt(loc[p].content, i))

\* detection answered true for a standalone token inside a longer content,
\* or false for a content that holds :task only inside a longer token
C15_Witness ==
    \E p \in Procs :
        /\ pc[p] = "detected"
        /\ \/ loc[p].flag /\ loc[p].content = <<"a", " ", "T", "\n", "a">>
           \/ ~ loc[p].flag /\ loc[p].content = <<"a", "T", "a">>

\* C16: for every content, flag detection on the result of stripTaskFlag
\* answers false.
C16_StripRemovesEveryFlag ==
    \A p \in Procs : pc[p] = "stripped" => ~ hasTaskFlag(loc[p].stripped)

\* a line is blank when it holds nothing but white space
IsBlank(line) == trim(line) = <<>>

\* the first line of s that is not blank (s itself when it has one line)
RECURSIVE firstNonBlankLine(_)
firstNonBlankLine(s) ==
    LET k == indexOfNewline(s)
    IN IF k = 0 THEN s
       ELSE IF ~ IsBlank(SubSeq(s, 1, k - 1)) THEN SubSeq(s, 1, k - 1)
       ELSE firstNonBlankLine(SubSeq(s, k + 1, Len(s)))

\* s without the blank lines it starts with
RECURSIVE dropLeadingBlankLines(_)
dropLeadingBlankLines(s) ==
    LET k == indexOfNewline(s)
    IN IF k > 0 /\ IsBlank(SubSeq(s, 1, k - 1))
       THEN dropLeadingBlankLines(SubSeq(s, k + 1, Len(s)))
       ELSE s

\* C17: parseTaskPayload gives as title the trimmed first non-blank line of
\* the flag-stripped content with line endings normalized, as note what
\* follows the first newline without its leading blank lines and without
\* trailing white space, and no title exactly when that content has no
\* non-blank line.
C17_TitleAndNote ==
    \A p \in Procs :
        pc[p] = "parsed" =>
            LET text == trimEnd(replaceCRLF(stripTaskFlag(loc[p].content)))
                k == indexOfNewline(text)
                title == loc[p].payload.title
                note == loc[p].payload.note
            IN /\ title = trim(firstNonBlankLine(text))
               /\ (title = <<>>) <=> IsBlank(text)
               /\ title # <<>> =>
                      note = IF k = 0 THEN <<>>
                             ELSE trimEnd(dropLeadingBlankLines(SubSeq(text, k + 1, Len(text))))

\* ------------------------------------------------ the checklist toggle
\* Content of the checklist functions is a sequence of atoms: "U" is the
\* item prefix "- [ ] ", "C" is "- [x] ", "X" is "- [X] ", "F" is a run of
\* three backticks, "a" is any other character and "\n" the newline.
ToggleChars == {"U", "C", "X", "F", "a", "\n"}
\* longest content handed to applyChecklistToggle in SpecChecklist
MaxToggleLen == 5
\* largest ordinal handed to applyChecklistToggle
MaxOrdinal == 2
ToggleContents == UNION {[1..n -> ToggleChars] : n \in 0..MaxToggleLen}
Ordinals == (0 - 1)..MaxOrdinal

\* a scan that sees no fence at all
fenceExecNone(content, from) == [index |-> 0, lastIndex |-> 0]

\* fenceRe.exec(content) with fenceRe.lastIndex at from: the first run of
\* three backticks at or after from that has another one behind it, up to
\* the nearest such; index 0 when there is no match
fenceExec(content, from) ==
    LET opens == {i \in from..Len(content) :
                     /\ content[i] = "F"
                     /\ \E j \in (i + 1)..Len(content) : content[j] = "F"}
    IN IF opens = {} THEN [index |-> 0, lastIndex |-> 0]
       ELSE LET i == CHOOSE x \in opens : \A y \in opens : x <= y
                j == CHOOSE x \in (i + 1)..Len(content) :
                        /\ content[x] = "F"
                        /\ \A y \in (i + 1)..(x - 1) : content[y] # "F"
            IN [index |-> i, lastIndex |-> j + 1]

\* /^- \[( |x|X)\] /.test(line)
isChecklistLine(line) == line # <<>> /\ Head(line) \in {"U", "C", "X"}

\* a toggle that inverts the box whatever state is asked for
toggledLineInverted(line, checked) ==
    <<IF Head(line) = "U" THEN "C" ELSE "U">> \o Tail(line)

\* line.replace(/^- \[( |x|X)\] /, checked ? "- [x] " : "- [ ] ")
toggledLine(line, checked) ==
    <<IF checked THEN "C" ELSE "U">> \o Tail(line)

\* replaceInPlain(plain) of applyChecklistToggle, line by line: seen is the
\* closure's counter on entry; the value has the joined lines, the counter
\* and the updated flag
RECURSIVE replaceInPlain(_, _, _, _)
replaceInPlain(plain, seen, ordinal, checked) ==
    LET k == indexOfNewline(plain)
        line == IF k = 0 THEN plain ELSE SubSeq(plain, 1, k - 1)
        hit == isChecklistLine(line) /\ seen = ordinal
        newLine == IF hit THEN toggledLine(line, checked) ELSE line
        seen1 == IF isChecklistLine(line) THEN seen + 1 ELSE seen
    IN IF k = 0 THEN [out |-> newLine, seen |-> seen1, updated |-> hit]
       ELSE LET r == replaceInPlain(SubSeq(plain, k + 1, Len(plain)), seen1, ordinal, checked)
            IN [out |-> newLine \o <<"\n">> \o r.out, seen |-> r.seen,
                updated |-> hit \/ r.updated]

\* the while (true) loop of applyChecklistToggle from position last on, and
\* the final replaceInPlain(content.slice(last))
RECURSIVE toggleFrom(_, _, _, _, _)
toggleFrom(content, last, seen, ordinal, checked) ==
    LET match == fenceExec(content, last)
    IN IF match.index = 0
       THEN replaceInPlain(SubSeq(content, last, Len(content)), seen, ordinal, checked)
       ELSE LET r == replaceInPlain(SubSeq(content, last, match.index - 1), seen, ordinal, checked)
                t == toggleFrom(content, match.lastIndex, r.seen, ordinal, checked)
            IN [out |-> r.out \o SubSeq(content, match.index, match.lastIndex - 1) \o t.out,
                seen |-> t.seen, updated |-> r.updated \/ t.updated]

\* server.ts applyChecklistToggle(content, ordinal, checked)
applyChecklistToggle(content, ordinal, checked) ==
    IF ordinal < 0 THEN content
    ELSE LET r == toggleFrom(content, 1, 0, ordinal, checked)
         IN IF r.updated THEN r.out ELSE content

\* the state after construction, with one toggle about to be computed
InitChecklist ==
    /\ initDb
    /\ users = {[id |-> u, name |-> UserName(u), email |-> UserEmail(u),
                  password |-> hashPassword(UserPassword(u))] : u \in Users}
    /\ sessions = {}
    /\ now = 0
    /\ sessLog = <<>>
    /\ revoked = {}
    /\ purged = {}
    /\ nextId = [users |-> 3, channels |-> 2, threads |-> 2, messages |-> 1,
                 replies |-> 1, tasks |-> 1]
    /\ taskLog = {}
    /\ events = <<>>
    /\ \E content \in ToggleContents, ordinal \in Ordinals, checked \in BOOLEAN :
          /\ pc = [p \in Procs |-> IF p = 1 THEN "input" ELSE "idle"]
          /\ loc = [p \in Procs |->
                      IF p = 1 THEN [cmd |-> "toggle", content |-> content,
                                     ordinal |-> ordinal, checked |-> checked]
                      ELSE Idle]
    /\ done = <<>>
    /\ nCmds = 0
    /\ created = {}
    /\ manual = {}
    /\ streamClients = {}
    /\ written = [c \in Conns |-> <<>>]
    /\ connState = [c \in Conns |-> "new"]
    /\ subFrom = [c \in Conns |-> 0]
    /\ closedAt = [c \in Conns |-> 0]
    /\ failedAt = {}
    /\ page = [c \in Conns |-> NoPage]
    /\ view = NoView

\* applyChecklistToggle(content, ordinal, checked)
ApplyToggle(p) ==
    /\ pc[p] = "input"
    /\ goto(p, "toggled",
            loc[p] @@ [result |-> applyChecklistToggle(loc[p].content, loc[p].ordinal,
                                                       loc[p].checked)])
    /\ UNCHANGED notParse

\* applyChecklistToggle applied to its own result, same ordinal and state
ApplyToggleAgain(p) ==
    /\ pc[p] = "toggled"
    /\ goto(p, "toggledTwice",
            loc[p] @@ [again |-> applyChecklistToggle(loc[p].result, loc[p].ordinal,
                                                      loc[p].checked)])
    /\ UNCHANGED notParse

NextChecklist ==
    \E p \in Procs :
        \/ ApplyToggle(p)
        \/ ApplyToggleAgain(p)

SpecChecklist == InitChecklist /\ [][NextChecklist]_vars

\* the runs of three backticks of s before position i
FencesBefore(s, i) == Cardinality({j \in 1..(i - 1) : s[j] = "F"})

\* position i of s lies in a fenced region: between an opening run of
\* three backticks and the run that closes it, the two runs included.  The
\* runs pair up in document order; a last run without a partner opens no
\* region.
InFencedRegion(s, i) ==
    LET total == Cardinality({j \in 1..Len(s) : s[j] = "F"})
    IN IF s[i] = "F" THEN FencesBefore(s, i) + 1 <= 2 * (total \div 2)
       ELSE FencesBefore(s, i) % 2 = 1 /\ FencesBefore(s, i) < total

\* the positions of the item prefixes that open a line of the text outside
\* fenced regions (a line of that text starts at the start of the content,
\* after a newline, or where a fenced region ends)
ChecklistItems(s) ==
    {i \in 1..Len(s) :
        /\ s[i] \in {"U", "C", "X"}
        /\ ~ InFencedRegion(s, i)
        /\ \/ i = 1
           \/ s[i - 1] = "\n"
           \/ s[i - 1] = "F" /\ InFencedRegion(s, i - 1)}

\* the position of the item with the given ordinal in document order, 0
\* when there is none
ItemAt(s, ordinal) ==
    LET at == {i \in ChecklistItems(s) :
                  Cardinality({j \in ChecklistItems(s) : j < i}) = ordinal}
    IN IF at = {} THEN 0 ELSE CHOOSE i \in at : TRUE

\* C18: applyChecklistToggle addresses the checklist lines by their order in
\* the document outside fenced regions: the only position it may change is
\* the item whose ordinal, counted through the whole document and on after
\* fences, is the one asked for, that item gets the requested box, and no
\* position inside a fenced region changes.
C18_AddressesOutsideFences ==
    \A p \in Procs :
        pc[p] = "toggled" =>
            LET c == loc[p].content
                r == loc[p].result
                pos == ItemAt(c, loc[p].ordinal)
            IN /\ Len(r) = Len(c)
               /\ \A i \in 1..Len(c) : InFencedRegion(c, i) => r[i] = c[i]
               /\ \A i \in 1..Len(c) : r[i] # c[i] => i = pos
               /\ pos # 0 => r[pos] = (IF loc[p].checked THEN "C" ELSE "U")

\* a toggle changed an item that follows an item before a fence and a fenced
\* line that looks like an item
C18_Witness ==
    \E p \in Procs :
        /\ pc[p] = "toggled"
        /\ LET c == loc[p].content
               pos == ItemAt(c, loc[p].ordinal)
           IN /\ pos # 0
              /\ loc[p].result[pos] # c[pos]
              /\ \E i, j \in 1..Len(c) :
                    /\ i < j /\ j < pos
                    /\ i \in ChecklistItems(c)
                    /\ InFencedRegion(c, j) /\ c[j] \in {"U", "C", "X"}

\* the lines of s: one more than its newlines
LineCount(s) == Cardinality({i \in 1..Len(s) : s[i] = "\n"}) + 1

\* C19: a toggle changes at most the box of the addressed checklist line:
\* at most one position differs and it is an item prefix before and after,
\* the number of lines and the number of checklist items stay the same, an
\* ordinal that addresses no item gives back the input, and toggling the
\* result again with the same ordinal and state changes nothing more.
C19_ToggleFrame ==
    \A p \in Procs :
        /\ pc[p] \in {"toggled", "toggledTwice"} =>
              LET c == loc[p].content
                  r == loc[p].result
                  diff == {i \in 1..Len(c) : r[i] # c[i]}
              IN /\ Len(r) = Len(c)
                 /\ Cardinality(diff) <= 1
                 /\ \A i \in diff : c[i] \in {"U", "C", "X"} /\ r[i] \in {"U", "C"}
                 /\ LineCount(r) = LineCount(c)
                 /\ Cardinality(ChecklistItems(r)) = Cardinality(ChecklistItems(c))
                 /\ ItemAt(c, loc[p].ordinal) = 0 => r = c
        /\ pc[p] = "toggledTwice" => loc[p].again = loc[p].result

\* a toggle that changed a box was applied a second time
C19_Witness ==
    \E p \in Procs :
        /\ pc[p] = "toggledTwice"
        /\ loc[p].result # loc[p].content
        /\ Len(loc[p].content) = MaxToggleLen

\* ------------------------ POST /messages/:messageId/checklist (571-631)
\* commands issued in one behaviour of SpecToggle
MaxToggleCmds == 2
\* contents of the messages posted in SpecToggle
ChecklistBodies ==
    { <<"U", "a">>, <<"C", "a">>, <<"X", "a">>,
      <<"F", "U", "F">>, <<"U", "a", "\n", "C", "a">> }

\* Post message with a checklist as content, in the seeded thread
PostChecklistMessage(p) ==
    \E u \in Users, content \in ChecklistBodies :
        /\ nCmds < MaxToggleCmds
        /\ start(p, "pm_insert", [cmd |-> "PostMessage", user |-> u, threadId |-> 1,
                                  createTask |-> FALSE, raw |-> content]
                                 @@ postPayload([content |-> content, createTask |-> FALSE]))
        /\ UNCHANGED <<messages, replies, tasks, nextId, events, done, taskLog>>
        /\ UNCHANGED notStore

\* the request of an authenticated user arrives; a body that fails the
\* schema {ordinal: int >= 0, checked: boolean} is answered 400 at once
ToggleChecklist(p) ==
    \E u \in Users, messageId \in MessageIds, ordinal \in Ordinals, checked \in BOOLEAN :
        /\ nCmds < MaxToggleCmds
        /\ nCmds' = nCmds + 1
        /\ pc[p] = "idle"
        /\ \A q \in Procs : q < p => pc[q] # "idle"
        /\ LET locals == [cmd |-> "ToggleChecklist", user |-> u, messageId |-> messageId,
                          ordinal |-> ordinal, checked |-> checked, cid |-> nCmds + 1]
           IN IF ordinal < 0
              THEN /\ done' = done @@ (nCmds + 1 :>
                                [cmd |-> "ToggleChecklist", status |-> 400,
                                 req |-> locals @@ [error |-> "Invalid request."]])
                   /\ UNCHANGED <<pc, loc>>
              ELSE /\ pc' = [pc EXCEPT ![p] = "tc_select"]
                   /\ loc' = [loc EXCEPT ![p] = locals]
                   /\ UNCHANGED done
        /\ UNCHANGED <<messages, replies, tasks, nextId, events, taskLog>>
        /\ UNCHANGED notStore

\* SELECT id, thread_id, content FROM messages; applyChecklistToggle;
\* nextContent === existing.content is answered 400
tc_select(p) ==
    /\ pc[p] = "tc_select"
    /\ LET rows == {m \in messages : m.id = loc[p].messageId}
       IN IF rows = {}
          THEN respondWith(p, 404, loc[p] @@ [error |-> "Message not found."])
          ELSE LET existing == CHOOSE m \in rows : TRUE
                   nextContent == applyChecklistToggle(existing.content, loc[p].ordinal,
                                                       loc[p].checked)
               IN IF nextContent = existing.content
                  THEN respondWith(p, 400, loc[p] @@ [existing |-> existing.content,
                                                      error |-> "Checklist item not found."])
                  ELSE /\ goto(p, "tc_update", loc[p] @@ [existing |-> existing.content,
                                                          nextContent |-> nextContent])
                       /\ UNCHANGED done
    /\ UNCHANGED <<messages, replies, tasks, nextId, events, nCmds, taskLog>>
    /\ UNCHANGED notStore

\* UPDATE messages SET content = ? WHERE id = ?
tc_update(p) ==
    /\ pc[p] = "tc_update"
    /\ messages' = {IF m.id = loc[p].messageId
                    THEN [m EXCEPT !.content = loc[p].nextContent] ELSE m : m \in messages}
    /\ goto(p, "tc_get", loc[p])
    /\ UNCHANGED <<replies, tasks, nextId, events, done, nCmds, taskLog>>
    /\ UNCHANGED notStore

\* SELECT the message; without it the handler answers 500
tc_get(p) ==
    /\ pc[p] = "tc_get"
    /\ IF messageRow(loc[p].messageId) # {}
       THEN /\ goto(p, "tc_meta",
                    loc[p] @@ [threadId |->
                        (CHOOSE m \in messageRow(loc[p].messageId) : TRUE).thread_id])
            /\ UNCHANGED done
       ELSE respondWith(p, 500, loc[p] @@ [error |-> "Failed to update message."])
    /\ UNCHANGED <<messages, replies, tasks, nextId, events, nCmds, taskLog>>
    /\ UNCHANGED notStore

\* SELECT threadMeta, broadcast message_updated, res.json(message)
tc_meta(p) ==
    /\ pc[p] = "tc_meta"
    /\ events' = IF threadMeta(loc[p].threadId) # {}
                 THEN broadcastEvent(events, [type |-> "message_updated", cid |-> loc[p].cid,
                                              id |-> loc[p].messageId])
                 ELSE events
    /\ respond(p, 200)
    /\ UNCHANGED <<messages, replies, tasks, nextId, nCmds, taskLog>>
    /\ UNCHANGED notStore

NextToggle ==
    \E p \in Procs :
        \/ PostChecklistMessage(p) /\ streamWrites
        \/ pm_insert(p) /\ streamWrites
        \/ pm_get(p) /\ streamWrites
        \/ pm_meta(p) /\ streamWrites
        \/ ToggleChecklist(p) /\ streamWrites
        \/ tc_select(p) /\ streamWrites
        \/ tc_update(p) /\ streamWrites
        \/ tc_get(p) /\ streamWrites
        \/ tc_meta(p) /\ streamWrites

SpecToggle == Init /\ [][NextToggle]_vars

\* C20: a Toggle checklist command on an existing message is rejected with
\* not-found exactly when its ordinal addresses no checklist item outside
\* fences; when the ordinal addresses an item, whatever its state and the
\* state asked for, the command succeeds, the stored content has the item
\* in the requested state, and message_updated is emitted.
C20_NotFoundIffNoItem ==
    \A c \in DOMAIN done :
        (done[c].cmd = "ToggleChecklist" /\ "existing" \in DOMAIN done[c].req) =>
            LET req == done[c].req
                pos == ItemAt(req.existing, req.ordinal)
            IN /\ (done[c].status # 200) <=> (pos = 0)
               /\ pos = 0 => req.error = "Checklist item not found."
               /\ pos # 0 =>
                     /\ \E m \in messages :
                           /\ m.id = req.messageId
                           /\ m.content = [req.existing EXCEPT
                                             ![pos] = IF req.checked THEN "C" ELSE "U"]
                     /\ \E i \in 1..Len(events) :
                           events[i] = [type |-> "message_updated", cid |-> c,
                                        id |-> req.messageId]

\* ----------------------------------- edit and delete, messages and replies
\* commands issued in one behaviour of SpecAuthor
MaxAuthorCmds == 4
ReplyIds == 1..nextId.replies
\* request bodies {content} of Edit message and Edit reply: z.string().min(1)
EditContents == {<<"b">>, <<" ">>}

\* Post message by the first user in the seeded thread, no task asked for
PostPlainMessage(p) ==
    /\ nCmds < MaxAuthorCmds
    /\ start(p, "pm_insert", [cmd |-> "PostMessage", user |-> 1, threadId |-> 1,
                              createTask |-> FALSE, raw |-> <<"a">>]
                             @@ postPayload([content |-> <<"a">>, createTask |-> FALSE]))
    /\ UNCHANGED <<messages, replies, tasks, nextId, events, done, taskLog>>
    /\ UNCHANGED notStore

\* Post reply by the second user, no task asked for
PostPlainReply(p) ==
    \E messageId \in MessageIds :
        /\ nCmds < MaxAuthorCmds
        /\ start(p, "pr_parent", [cmd |-> "PostReply", user |-> 2, messageId |-> messageId,
                                  createTask |-> FALSE, raw |-> <<"a">>]
                                 @@ postPayload([content |-> <<"a">>, createTask |-> FALSE]))
        /\ UNCHANGED <<messages, replies, tasks, nextId, events, done, taskLog>>
        /\ UNCHANGED notStore

\* DELETE /messages/:messageId arrives
DeleteOwnOrOther(p) ==
    \E u \in Users, messageId \in MessageIds :
        /\ nCmds < MaxAuthorCmds
        /\ start(p, "dm_get", [cmd |-> "DeleteMessage", user |-> u, messageId |-> messageId])
        /\ UNCHANGED <<messages, replies, tasks, nextId, events, done, taskLog>>
        /\ UNCHANGED notStore

\* PATCH /messages/:messageId (503-569) arrives with a body that passes the schema
EditMessage(p) ==
    \E u \in Users, messageId \in MessageIds, content \in EditContents :
        /\ nCmds < MaxAuthorCmds
        /\ start(p, "em_get", [cmd |-> "EditMessage", user |-> u, messageId |-> messageId,
                               content |-> content])
        /\ UNCHANGED <<messages, replies, tasks, nextId, events, done, taskLog>>
        /\ UNCHANGED notStore

\* SELECT id, thread_id, user_id FROM messages: 404 when missing, 403 when
\* the requester is not the author, 400 when the trimmed content is empty
em_get(p) ==
    /\ pc[p] = "em_get"
    /\ IF ~ \E m \in messages : m.id = loc[p].messageId
       THEN respond(p, 404)
       ELSE LET existing == CHOOSE m \in messages : m.id = loc[p].messageId
            IN IF existing.user_id # loc[p].user
               THEN respond(p, 403)
               ELSE IF trim(loc[p].content) = <<>>
               THEN respond(p, 400)
               ELSE /\ goto(p, "em_update", loc[p] @@ [nextContent |-> trim(loc[p].content)])
                    /\ UNCHANGED done
    /\ UNCHANGED <<messages, replies, tasks, nextId, events, nCmds, taskLog>>
    /\ UNCHANGED notStore

\* UPDATE messages SET content = ? WHERE id = ?
em_update(p) ==
    /\ pc[p] = "em_update"
    /\ messages' = {IF m.id = loc[p].messageId
                    THEN [m EXCEPT !.content = loc[p].nextContent] ELSE m : m \in messages}
    /\ goto(p, "em_select", loc[p])
    /\ UNCHANGED <<replies, tasks, nextId, events, done, nCmds, taskLog>>
    /\ UNCHANGED notStore

\* SELECT the message; without it the handler answers 500
em_select(p) ==
    /\ pc[p] = "em_select"
    /\ IF messageRow(loc[p].messageId) # {}
       THEN /\ goto(p, "em_meta",
                    loc[p] @@ [threadId |->
                                   (CHOOSE m \in messageRow(loc[p].messageId) : TRUE).thread_id,
                               rowContent |->
                                   (CHOOSE m \in messageRow(loc[p].messageId) : TRUE).content,
                               replyCount |-> replyCount(loc[p].messageId)])
            /\ UNCHANGED done
       ELSE respond(p, 500)
    /\ UNCHANGED <<messages, replies, tasks, nextId, events, nCmds, taskLog>>
    /\ UNCHANGED notStore

\* SELECT threadMeta, broadcast message_updated, res.json(message)
em_meta(p) ==
    /\ pc[p] = "em_meta"
    /\ events' = IF threadMeta(loc[p].threadId) # {}
                 THEN broadcastEvent(events, [type |-> "message_updated", cid |-> loc[p].cid,
                                              id |-> loc[p].messageId])
                 ELSE events
    /\ respond(p, 200)
    /\ UNCHANGED <<messages, replies, tasks, nextId, nCmds, taskLog>>
    /\ UNCHANGED notStore

\* PATCH /replies/:replyId (775-835) arrives with a body that passes the schema
EditReply(p) ==
    \E u \in Users, replyId \in ReplyIds, content \in EditContents :
        /\ nCmds < MaxAuthorCmds
        /\ start(p, "er_get", [cmd |-> "EditReply", user |-> u, replyId |-> replyId,
                               content |-> content])
        /\ UNCHANGED <<messages, replies, tasks, nextId, events, done, taskLog>>
        /\ UNCHANGED notStore

\* SELECT id, message_id, user_id FROM replies: 404, 403 or 400 as for messages
er_get(p) ==
    /\ pc[p] = "er_get"
    /\ IF ~ \E r \in replies : r.id = loc[p].replyId
       THEN respond(p, 404)
       ELSE LET existing == CHOOSE r \in replies : r.id = loc[p].replyId
            IN IF existing.user_id # loc[p].user
               THEN respond(p, 403)
               ELSE IF trim(loc[p].content) = <<>>
               THEN respond(p, 400)
               ELSE /\ goto(p, "er_update", loc[p] @@ [nextContent |-> trim(loc[p].content),
                                                       messageId |-> existing.message_id])
                    /\ UNCHANGED done
    /\ UNCHANGED <<messages, replies, tasks, nextId, events, nCmds, taskLog>>
    /\ UNCHANGED notStore

\* UPDATE replies SET content = ? WHERE id = ?
er_update(p) ==
    /\ pc[p] = "er_update"
    /\ replies' = {IF r.id = loc[p].replyId
                   THEN [r EXCEPT !.content = loc[p].nextContent] ELSE r : r \in replies}
    /\ goto(p, "er_select", loc[p])
    /\ UNCHANGED <<messages, tasks, nextId, events, done, nCmds, taskLog>>
    /\ UNCHANGED notStore

\* SELECT replies.* JOIN users; without the row the handler answers 500
er_select(p) ==
    /\ pc[p] = "er_select"
    /\ IF \E r \in replies : r.id = loc[p].replyId /\ \E u \in users : u.id = r.user_id
       THEN goto(p, "er_parent",
                 loc[p] @@ [rowContent |->
                                (CHOOSE r \in replies : r.id = loc[p].replyId).content])
            /\ UNCHANGED done
       ELSE respond(p, 500)
    /\ UNCHANGED <<messages, replies, tasks, nextId, events, nCmds, taskLog>>
    /\ UNCHANGED notStore

\* SELECT thread_id FROM messages WHERE id = existing.message_id; 500 without it
er_parent(p) ==
    /\ pc[p] = "er_parent"
    /\ IF \E m \in messages : m.id = loc[p].messageId
       THEN /\ goto(p, "er_meta",
                    loc[p] @@ [threadId |->
                        (CHOOSE m \in messages : m.id = loc[p].messageId).thread_id])
            /\ UNCHANGED done
       ELSE respond(p, 500)
    /\ UNCHANGED <<messages, replies, tasks, nextId, events, nCmds, taskLog>>
    /\ UNCHANGED notStore

\* SELECT threadMeta, broadcast reply_updated, res.json(reply)
er_meta(p) ==
    /\ pc[p] = "er_meta"
    /\ events' = IF threadMeta(loc[p].threadId) # {}
                 THEN broadcastEvent(events, [type |-> "reply_updated", cid |-> loc[p].cid,
                                              id |-> loc[p].replyId])
                 ELSE events
    /\ respond(p, 200)
    /\ UNCHANGED <<messages, replies, tasks, nextId, nCmds, taskLog>>
    /\ UNCHANGED notStore

\* DELETE /replies/:replyId (895-938) arrives
DeleteReply(p) ==
    \E u \in Users, replyId \in ReplyIds :
        /\ nCmds < MaxAuthorCmds
        /\ start(p, "dr_get", [cmd |-> "DeleteReply", user |-> u, replyId |-> replyId])
        /\ UNCHANGED <<messages, replies, tasks, nextId, events, done, taskLog>>
        /\ UNCHANGED notStore

\* SELECT id, message_id, user_id FROM replies: 404 when missing, 403 when
\* the requester is not the author
dr_get(p) ==
    /\ pc[p] = "dr_get"
    /\ IF ~ \E r \in replies : r.id = loc[p].replyId
       THEN respond(p, 404)
       ELSE LET existing == CHOOSE r \in replies : r.id = loc[p].replyId
            IN IF existing.user_id # loc[p].user
               THEN respond(p, 403)
               ELSE /\ goto(p, "dr_parent", loc[p] @@ [messageId |-> existing.message_id])
                    /\ UNCHANGED done
    /\ UNCHANGED <<messages, replies, tasks, nextId, events, nCmds, taskLog>>
    /\ UNCHANGED notStore

\* SELECT thread_id FROM messages WHERE id = existing.message_id; 500 without it
dr_parent(p) ==
    /\ pc[p] = "dr_parent"
    /\ IF \E m \in messages : m.id = loc[p].messageId
       THEN /\ goto(p, "dr_meta",
                    loc[p] @@ [threadId |->
                        (CHOOSE m \in messages : m.id = loc[p].messageId).thread_id])
            /\ UNCHANGED done
       ELSE respond(p, 500)
    /\ UNCHANGED <<messages, replies, tasks, nextId, events, nCmds, taskLog>>
    /\ UNCHANGED notStore

\* SELECT threadMeta of the parent's thread
dr_meta(p) ==
    /\ pc[p] = "dr_meta"
    /\ goto(p, "dr_delete", loc[p] @@ [threadMeta |-> threadMeta(loc[p].threadId) # {}])
    /\ UNCHANGED <<messages, replies, tasks, nextId, events, done, nCmds, taskLog>>
    /\ UNCHANGED notStore

\* DELETE FROM replies WHERE id = ?, then reply_deleted and the answer
dr_delete(p) ==
    /\ pc[p] = "dr_delete"
    /\ replies' = {r \in replies : r.id # loc[p].replyId}
    /\ events' = IF loc[p].threadMeta
                 THEN broadcastEvent(events, [type |-> "reply_deleted", cid |-> loc[p].cid,
                                              id |-> loc[p].replyId])
                 ELSE events
    /\ respond(p, 200)
    /\ UNCHANGED <<messages, tasks, nextId, nCmds, taskLog>>
    /\ UNCHANGED notStore

NextAuthor ==
    \E p \in Procs :
        \/ PostPlainMessage(p) /\ streamWrites
        \/ pm_insert(p) /\ streamWrites
        \/ pm_get(p) /\ streamWrites
        \/ pm_meta(p) /\ streamWrites
        \/ PostPlainReply(p) /\ streamWrites
        \/ pr_parent(p) /\ streamWrites
        \/ pr_insert(p) /\ streamWrites
        \/ pr_get(p) /\ streamWrites
        \/ pr_meta(p) /\ streamWrites
        \/ EditMessage(p) /\ streamWrites
        \/ em_get(p) /\ streamWrites
        \/ em_update(p) /\ streamWrites
        \/ em_select(p) /\ streamWrites
        \/ em_meta(p) /\ streamWrites
        \/ DeleteOwnOrOther(p) /\ streamWrites
        \/ dm_get(p) /\ streamWrites
        \/ dm_meta(p) /\ streamWrites
        \/ dm_replies(p) /\ streamWrites
        \/ dm_tasks(p) /\ streamWrites
        \/ dm_message(p) /\ streamWrites
        \/ EditReply(p) /\ streamWrites
        \/ er_get(p) /\ streamWrites
        \/ er_update(p) /\ streamWrites
        \/ er_select(p) /\ streamWrites
        \/ er_parent(p) /\ streamWrites
        \/ er_meta(p) /\ streamWrites
        \/ DeleteReply(p) /\ streamWrites
        \/ dr_get(p) /\ streamWrites
        \/ dr_parent(p) /\ streamWrites
        \/ dr_meta(p) /\ streamWrites
        \/ dr_delete(p) /\ streamWrites

SpecAuthor == Init /\ [][NextAuthor]_vars

\* the row an edit or delete command names, as the store has it now
TargetRows(l) ==
    IF l.cmd \in {"EditMessage", "DeleteMessage"}
    THEN {m \in messages : m.id = l.messageId}
    ELSE {r \in replies : r.id = l.replyId}

\* C21: an Edit or Delete of a message or reply that exists is answered
\* Forbidden exactly when the requester is not its author, the forbidden
\* command leaves messages, replies and tasks as they are and emits no
\* event, and the author's command (with content that is not blank) succeeds.
C21_OnlyAuthorEditsAndDeletes ==
    [][\A p \in Procs :
          (/\ loc[p].cmd \in {"EditMessage", "DeleteMessage", "EditReply", "DeleteReply"}
           /\ pc'[p] = "idle"
           /\ TargetRows(loc[p]) # {}) =>
              LET owner == (CHOOSE row \in TargetRows(loc[p]) : TRUE).user_id
                  status == done'[loc[p].cid].status
                  blank == /\ loc[p].cmd \in {"EditMessage", "EditReply"}
                           /\ trim(loc[p].content) = <<>>
              IN /\ (status = 403) <=> (owner # loc[p].user)
                 /\ status = 403 => UNCHANGED <<messages, replies, tasks, events>>
                 /\ (owner = loc[p].user /\ ~ blank) => status = 200]_vars

\* C22: the stored content of a message changes only in a step of a command
\* issued by the message's author.
C22_ContentChangesByAuthorOnly ==
    [][\A m \in messages : \A n \in messages' :
          (n.id = m.id /\ n.content # m.content) =>
              \E p \in Procs : pc'[p] # pc[p] /\ loc[p].user = m.user_id]_vars

\* ------------------------------------------- Create channel, duplicates
\* the Create channel commands that have been answered
ChannelCmds == {c \in DOMAIN done : done[c].cmd = "CreateChannel"}

\* command c was stopped by the UNIQUE name: it never got a channel id
Duplicate(c) == "lastID" \notin DOMAIN done[c].req

\* what C23 asks of the commands answered so far
DuplicatesFail ==
    /\ \A c \in ChannelCmds :
          Duplicate(c) =>
              /\ done[c].status = 400
              /\ \E ch \in channels : ch.name = done[c].req.name
              /\ \A i \in 1..Len(events) : events[i].cid # c
              /\ done[c].req.name # "general" =>
                    \/ \E d \in ChannelCmds :
                          done[d].req.name = done[c].req.name /\ ~ Duplicate(d)
                    \/ \E p \in Procs :
                          /\ loc[p].cmd = "CreateChannel"
                          /\ loc[p].name = done[c].req.name
                          /\ "lastID" \in DOMAIN loc[p]
    /\ \A c1, c2 \in ChannelCmds :
          (c1 # c2 /\ done[c1].req.name = done[c2].req.name) =>
              Duplicate(c1) \/ Duplicate(c2)
    /\ \A ch1, ch2 \in channels : ch1.name = ch2.name => ch1 = ch2

\* C23: a Create channel whose name exists when it reaches the insert is
\* answered with the conflict error in a step that leaves channels, threads
\* and events as they are, and it never emits an event; of two commands with
\* the same new name, run one after the other or concurrently, exactly one
\* gets the channel.
C23_DuplicateNameFails ==
    [][/\ DuplicatesFail'
       /\ \A p \in Procs :
             (/\ pc[p] = "cc_insert"
              /\ pc'[p] # "cc_insert"
              /\ \E ch \in channels : ch.name = loc[p].name) =>
                 /\ loc[p].cid \in DOMAIN done'
                 /\ done'[loc[p].cid].status = 400
                 /\ UNCHANGED <<channels, threads, events>>]_vars

\* two commands asked for the same new name: one was answered 200, the
\* other the conflict
C23_Witness ==
    \E c1, c2 \in ChannelCmds :
        /\ done[c1].req.name = done[c2].req.name
        /\ done[c1].req.name # "general"
        /\ done[c1].status = 200
        /\ Duplicate(c2)
        /\ done[c2].status = 400

\* -------------------------------------------------- GET /tasks (957-995)
DONE_TASK_RETENTION_DAYS == 7
\* LIMIT 200 of the query
TASK_LIST_LIMIT == 200
\* the day on which the listing of SpecList runs
MaxListTime == 20
\* tasks of a listed table whose status and updated_at are drawn freely
MaxListTasks == 1
\* List tasks commands issued in one behaviour of SpecList
MaxListCmds == 1

\* the status filter as the handler reads it: anything but open, doing or
\* done is no filter
StatusFilters == {"none", "open", "doing", "done"}

\* a done task is hidden however recent its update
listWhereHidingDone(t, status, channelId, threadId, at) ==
    /\ IF status # "none" THEN t.status = status /\ status # "done"
       ELSE t.status # "done"
    /\ channelId # 0 => t.channel_id = channelId
    /\ threadId # 0 => t.thread_id = threadId

\* the WHERE clause the handler builds, evaluated on row t at time at
listWhere(t, status, channelId, threadId, at) ==
    /\ IF status # "none"
       THEN /\ t.status = status
            /\ status = "done" => t.updated_at >= at - DONE_TASK_RETENTION_DAYS
       ELSE t.status # "done" \/ t.updated_at >= at - DONE_TASK_RETENTION_DAYS
    /\ channelId # 0 => t.channel_id = channelId
    /\ threadId # 0 => t.thread_id = threadId

\* SELECT tasks.* ... JOIN users JOIN channels JOIN threads WHERE ...
\* ORDER BY tasks.id DESC LIMIT 200: the rows, newest ids first
listTasks(status, channelId, threadId) ==
    LET rows == {t \in tasks :
                    /\ \E u \in users : u.id = t.created_by
                    /\ \E c \in channels : c.id = t.channel_id
                    /\ \E th \in threads : th.id = t.thread_id
                    /\ listWhere(t, status, channelId, threadId, now)}
    IN IF Cardinality(rows) <= TASK_LIST_LIMIT THEN rows
       ELSE {t \in rows : Cardinality({u \in rows : u.id > t.id}) < TASK_LIST_LIMIT}

\* the statuses a task row can hold: CHECK(status IN ('open','doing','done'))
TaskStatuses == {"open", "doing", "done"}

\* the sizes of the task tables SpecList lists
ListSizes == (0..MaxListTasks) \cup {TASK_LIST_LIMIT, TASK_LIST_LIMIT + 1}

\* the store after n Post message commands with the task flag in the seeded
\* thread, the first tasks moved by Update task to the drawn status on the
\* drawn day, the others inserted on the day of the listing
InitList ==
    /\ channels = {[id |-> 1, name |-> "general"]}
    /\ threads = {[id |-> 1, channel_id |-> 1, title |-> "main", created_by |-> 0]}
    /\ replies = {}
    /\ users = {[id |-> u, name |-> UserName(u), email |-> UserEmail(u),
                  password |-> hashPassword(UserPassword(u))] : u \in Users}
    /\ sessions = {}
    /\ now = MaxListTime
    /\ sessLog = <<>>
    /\ revoked = {}
    /\ purged = {}
    /\ \E n \in ListSizes :
          \E st \in [1..MaxListTasks -> TaskStatuses], upd \in [1..MaxListTasks -> 0..MaxListTime] :
              /\ messages = {[id |-> i, thread_id |-> 1, user_id |-> 1, content |-> <<"a">>]
                               : i \in 1..n}
              /\ tasks = {[id |-> i, message_id |-> i, channel_id |-> 1, thread_id |-> 1,
                           created_by |-> 1, title |-> <<"a">>, note |-> <<>>,
                           status |-> IF i <= MaxListTasks THEN st[i] ELSE "open",
                           updated_at |-> IF i <= MaxListTasks THEN upd[i] ELSE MaxListTime]
                             : i \in 1..n}
              /\ nextId = [users |-> 3, channels |-> 2, threads |-> 2, messages |-> n + 1,
                           replies |-> 1, tasks |-> n + 1]
    /\ taskLog = {}
    /\ events = <<>>
    /\ pc = [p \in Procs |-> "idle"]
    /\ loc = [p \in Procs |-> Idle]
    /\ done = <<>>
    /\ nCmds = 0
    /\ created = {}
    /\ manual = {}
    /\ streamClients = {}
    /\ written = [c \in Conns |-> <<>>]
    /\ connState = [c \in Conns |-> "new"]
    /\ subFrom = [c \in Conns |-> 0]
    /\ closedAt = [c \in Conns |-> 0]
    /\ failedAt = {}
    /\ page = [c \in Conns |-> NoPage]
    /\ view = NoView

\* the request arrives; status, channelId and threadId are read from the query
ListTasks(p) ==
    \E status \in StatusFilters, channelId \in {0, 1, 2}, threadId \in {0, 1} :
        /\ nCmds < MaxListCmds
        /\ start(p, "lt_all", [cmd |-> "ListTasks", status |-> status,
                               channelId |-> channelId, threadId |-> threadId])
        /\ UNCHANGED <<messages, replies, tasks, nextId, events, done, taskLog>>
        /\ UNCHANGED notStore

\* await all(SELECT ...), res.json(tasks)
lt_all(p) ==
    /\ pc[p] = "lt_all"
    /\ respondWith(p, 200, loc[p] @@ [result |-> {t.id : t \in listTasks(loc[p].status,
                                          loc[p].channelId, loc[p].threadId)}])
    /\ UNCHANGED <<messages, replies, tasks, nextId, events, nCmds, taskLog>>
    /\ UNCHANGED notStore

NextList ==
    \E p \in Procs :
        \/ ListTasks(p) /\ streamWrites
        \/ lt_all(p) /\ streamWrites

SpecList == InitList /\ [][NextList]_vars

\* the List tasks commands answered so far that named no channel and no thread
Listings == {c \in DOMAIN done : /\ done[c].cmd = "ListTasks"
                                 /\ done[c].req.channelId = 0
                                 /\ done[c].req.threadId = 0}

\* task t was last updated within the configured retention window
InWindow(t) == t.updated_at >= now - DONE_TASK_RETENTION_DAYS

\* the ids of the tasks a listing with the given status filter is to hold
Listed(status) ==
    {t.id : t \in {u \in tasks :
                      IF status = "none" THEN u.status # "done" \/ InWindow(u)
                      ELSE IF status = "done" THEN u.status = "done" /\ InWindow(u)
                      ELSE u.status = status}}

\* C24 as stated: List tasks with no status filter returns every non-done
\* task and exactly the done tasks updated within the retention window, with
\* status=done exactly the done tasks within the window, with status=open or
\* doing every task of that status.
C24_ListReturnsAllMatching ==
    \A c \in Listings : done[c].req.result = Listed(done[c].req.status)

\* C24, amended: List tasks returns the TASK_LIST_LIMIT newest (largest id)
\* of the tasks the status filter selects: the selected tasks are as C24
\* says, and all of them are returned when there are no more than the limit.
C24_ListReturnsNewestMatching ==
    \A c \in Listings :
        LET want == Listed(done[c].req.status)
            got == done[c].req.result
        IN /\ got \subseteq want
           /\ Cardinality(want) <= TASK_LIST_LIMIT => got = want
           /\ Cardinality(want) > TASK_LIST_LIMIT =>
                 /\ Cardinality(got) = TASK_LIST_LIMIT
                 /\ \A i \in got, j \in want \ got : j < i

\* a default listing of a table with more tasks than the limit returned
\* the limit's worth of them and left out the oldest task
C24_Witness ==
    \E c \in Listings :
        /\ done[c].req.status = "none"
        /\ Cardinality(done[c].req.result) = TASK_LIST_LIMIT
        /\ Cardinality(tasks) > TASK_LIST_LIMIT
        /\ 1 \notin done[c].req.result

\* the retention window the spec gives as default
SpecRetentionDays == 14

\* C25: with no configuration override a task that moved to done less than
\* 14 days ago is returned by the default listing (no table of SpecList
\* holds more tasks than the limit beside it).
C25_DefaultRetentionIs14Days ==
    \A c \in Listings :
        done[c].req.status = "none" =>
            \A t \in tasks :
                (/\ t.status = "done"
                 /\ now - t.updated_at < SpecRetentionDays
                 /\ Cardinality(tasks) <= TASK_LIST_LIMIT) => t.id \in done[c].req.result

\* ---------------------------------------- PATCH /tasks/:taskId (1113-1164)
\* commands issued in one behaviour of SpecTask
MaxTaskCmds == 3
\* last day of a behaviour of SpecTask
MaxTaskTime == 2

\* what the clock leaves alone
notClock == <<users, channels, threads, messages, replies, tasks, nextId, events,
              pc, loc, done, nCmds, created, manual, taskLog,
              sessions, sessLog, revoked, purged>>

\* CURRENT_TIMESTAMP moves on by a day, between any two steps
TaskTick ==
    /\ now < MaxTaskTime
    /\ now' = now + 1
    /\ UNCHANGED notClock

\* Post message with the task flag, in the seeded thread
PostFlaggedMessage(p) ==
    \E u \in Users :
        /\ nCmds < MaxTaskCmds
        /\ start(p, "pm_insert", [cmd |-> "PostMessage", user |-> u, threadId |-> 1,
                                  createTask |-> FALSE, raw |-> <<"a", " ", "T">>]
                                 @@ postPayload([content |-> <<"a", " ", "T">>,
                                                 createTask |-> FALSE]))
        /\ UNCHANGED <<messages, replies, tasks, nextId, events, done, taskLog>>
        /\ UNCHANGED notStore

\* request bodies of Update task that pass the schema: at least one of
\* status, title, note; "none" and <<"none">> stand for an absent field
UpdateBodies ==
    {[status |-> st, title |-> <<"none">>, note |-> <<"none">>] : st \in TaskStatuses}
    \cup {[status |-> "none", title |-> ti, note |-> <<"none">>] : ti \in {<<"b">>, <<" ">>}}
    \cup {[status |-> "done", title |-> <<"b">>, note |-> <<"a">>]}

\* the request arrives; a title that is blank after trim is answered 400
UpdateTask(p) ==
    \E u \in Users, taskId \in TaskIds, body \in UpdateBodies :
        /\ nCmds < MaxTaskCmds
        /\ start(p, "ut_update", [cmd |-> "UpdateTask", user |-> u, taskId |-> taskId,
                                 status |-> body.status, title |-> body.title,
                                 note |-> body.note])
        /\ UNCHANGED <<messages, replies, tasks, nextId, events, done, taskLog>>
        /\ UNCHANGED notStore

\* an UPDATE that leaves updated_at as it was
ut_updateKeepingClock(p) ==
    /\ pc[p] = "ut_update"
    /\ IF loc[p].title # <<"none">> /\ trim(loc[p].title) = <<>>
       THEN /\ respond(p, 400)
            /\ UNCHANGED tasks
       ELSE /\ tasks' = {IF t.id = loc[p].taskId
                         THEN [t EXCEPT
                                 !.status = IF loc[p].status # "none" THEN loc[p].status ELSE @]
                         ELSE t : t \in tasks}
            /\ goto(p, "ut_get", loc[p])
            /\ UNCHANGED done
    /\ UNCHANGED <<messages, replies, nextId, events, nCmds, taskLog>>
    /\ UNCHANGED notStore

\* 1128-1146: the blank title check, then UPDATE tasks SET <the fields
\* given>, updated_at = CURRENT_TIMESTAMP WHERE id = ?
ut_update(p) ==
    /\ pc[p] = "ut_update"
    /\ IF loc[p].title # <<"none">> /\ trim(loc[p].title) = <<>>
       THEN /\ respond(p, 400)
            /\ UNCHANGED tasks
       ELSE /\ tasks' = {IF t.id = loc[p].taskId
                         THEN [t EXCEPT
                                 !.status = IF loc[p].status # "none" THEN loc[p].status ELSE @,
                                 !.title = IF loc[p].title # <<"none">> THEN trim(loc[p].title) ELSE @,
                                 !.note = IF loc[p].note # <<"none">> THEN loc[p].note ELSE @,
                                 !.updated_at = now]
                         ELSE t : t \in tasks}
            /\ goto(p, "ut_get", loc[p])
            /\ UNCHANGED done
    /\ UNCHANGED <<messages, replies, nextId, events, nCmds, taskLog>>
    /\ UNCHANGED notStore

\* SELECT tasks.* ... JOIN users JOIN channels JOIN threads WHERE tasks.id = ?
taskRow(taskId) ==
    {t \in tasks : /\ t.id = taskId
                   /\ \E u \in users : u.id = t.created_by
                   /\ \E c \in channels : c.id = t.channel_id
                   /\ \E th \in threads : th.id = t.thread_id}

\* SELECT the task: 404 without it, else task_updated with the row and res.json
ut_get(p) ==
    /\ pc[p] = "ut_get"
    /\ IF taskRow(loc[p].taskId) = {}
       THEN respond(p, 404) /\ UNCHANGED events
       ELSE /\ events' = broadcastEvent(events,
                            [type |-> "task_updated", cid |-> loc[p].cid, id |-> loc[p].taskId,
                             status |-> (CHOOSE t \in taskRow(loc[p].taskId) : TRUE).status])
            /\ respond(p, 200)
    /\ UNCHANGED <<messages, replies, tasks, nextId, nCmds, taskLog>>
    /\ UNCHANGED notStore

NextTask ==
    \/ TaskTick /\ streamWrites
    \/ \E p \in Procs :
        \/ PostFlaggedMessage(p) /\ streamWrites
        \/ pm_insert(p) /\ streamWrites
        \/ pm_get(p) /\ streamWrites
        \/ pm_meta(p) /\ streamWrites
        \/ pm_info(p) /\ streamWrites
        \/ pm_taskins(p) /\ streamWrites
        \/ pm_taskget(p) /\ streamWrites
        \/ UpdateTask(p) /\ streamWrites
        \/ ut_update(p) /\ streamWrites
        \/ ut_get(p) /\ streamWrites

SpecTask == Init /\ [][NextTask]_vars

\* C26: every task's status is one of open, doing, done; the UPDATE of an
\* Update task that names a status gives the task that status whatever it
\* had before, and every UPDATE sets updated_at to the current time; an
\* Update task answered 200 emits, in the step that answers, its one
\* task_updated event, which carries the status the task then has.
C26_UpdateTaskSetsStatusAndClock ==
    [][/\ \A t \in tasks' : t.status \in TaskStatuses
       /\ \A p \in Procs :
             /\ (pc[p] = "ut_update" /\ pc'[p] = "ut_get") =>
                   \A t \in tasks :
                       t.id = loc[p].taskId =>
                           \E n \in tasks' :
                               /\ n.id = t.id
                               /\ n.updated_at = now
                               /\ loc[p].status # "none" => n.status = loc[p].status
             /\ (pc[p] = "ut_get" /\ pc'[p] = "idle" /\ done'[loc[p].cid].status = 200) =>
                   /\ \A i \in 1..Len(events) : events[i].cid # loc[p].cid
                   /\ Len(events') = Len(events) + 1
                   /\ LET e == events'[Len(events')]
                      IN /\ e.type = "task_updated"
                         /\ e.cid = loc[p].cid
                         /\ \E t \in tasks' : t.id = e.id /\ t.id = loc[p].taskId
                                                /\ t.status = e.status]_vars

\* a task went to done by one Update task and back to open by a later one,
\* on a later day
C26_Witness ==
    \E c1, c2 \in DOMAIN done :
        /\ c1 < c2
        /\ done[c1].cmd = "UpdateTask" /\ done[c2].cmd = "UpdateTask"
        /\ done[c1].status = 200 /\ done[c2].status = 200
        /\ done[c1].req.status = "done" /\ done[c2].req.status = "open"
        /\ \E t \in tasks : /\ t.id = done[c2].req.taskId
                            /\ t.id = done[c1].req.taskId
                            /\ t.status = "open"
                            /\ t.updated_at > 0
        /\ \E i, j \in 1..Len(events) :
              /\ i < j
              /\ events[i] = [type |-> "task_updated", cid |-> c1, id |-> done[c1].req.taskId,
                              status |-> "done"]
              /\ events[j] = [type |-> "task_updated", cid |-> c2, id |-> done[c2].req.taskId,
                              status |-> "open"]

\* ------------------------------------- the order of a command's events
\* in the sequence log, a channel_created is directly followed by the
\* thread_created of the same command, and a thread_created of a Create
\* channel command directly follows its channel_created
ChannelThenThread(log, upto) ==
    \A i \in 1..Len(log) :
        /\ log[i].type = "channel_created" =>
              \/ i = Len(log) /\ ~ upto
              \/ /\ i < Len(log)
                 /\ log[i + 1].type = "thread_created"
                 /\ log[i + 1].cid = log[i].cid
        /\ (/\ log[i].type = "thread_created"
            /\ log[i].cid \in DOMAIN done
            /\ done[log[i].cid].cmd = "CreateChannel") =>
              /\ i > 1
              /\ log[i - 1].type = "channel_created"
              /\ log[i - 1].cid = log[i].cid

\* C28: a Create channel answered 200 has emitted channel_created for its
\* channel and thread_created for its "main" thread; in the emission log and
\* in what each connection was sent, the thread_created comes directly after
\* the channel_created of the same command, whatever other commands emit (a
\* connection whose write of the second event threw ends with the first).
C28_ChannelThenThreadAdjacent ==
    /\ ChannelThenThread(events, TRUE)
    /\ \A conn \in Conns : ChannelThenThread(written[conn], FALSE)
    /\ \A c \in DOMAIN done :
          (done[c].cmd = "CreateChannel" /\ done[c].status = 200) =>
              \E i \in 1..(Len(events) - 1) :
                  /\ events[i] = [type |-> "channel_created", cid |-> c,
                                  id |-> done[c].req.lastID]
                  /\ events[i + 1] = [type |-> "thread_created", cid |-> c,
                                      id |-> done[c].req.threadID]
                  /\ \E t \in threads : /\ t.id = done[c].req.threadID
                                        /\ t.channel_id = done[c].req.lastID
                                        /\ t.title = "main"

\* a connection was sent the pair of a Create channel and right after it an
\* event of a command that had started before that Create channel
C28_Witness ==
    \E conn \in Conns :
        \E i \in 1..Len(written[conn]) :
            /\ written[conn][i].type = "channel_created"
            /\ i + 2 <= Len(written[conn])
            /\ written[conn][i + 1].type = "thread_created"
            /\ written[conn][i + 2].cid < written[conn][i].cid

\* Create task from dashboard commands issued in one behaviour of SpecDashStream
MaxOrderCmds == 2

\* POST /tasks by the first user in the seeded thread, a title and no note
CreateTitledTask(p) ==
    /\ nCmds < MaxOrderCmds
    /\ start(p, "tk_meta", [cmd |-> "CreateTask", user |-> 1, threadId |-> 1,
                            title |-> <<"a">>, note |-> <<>>, botMessage |-> <<>>,
                            messageID |-> 0, botMessageID |-> 0])
    /\ UNCHANGED <<users, messages, tasks, nextId, events, done>>
    /\ UNCHANGED notDash

\* subscribers come and go while Create task from dashboard commands run
NextDashStream ==
    \/ \E conn \in Conns :
        \/ Subscribe(conn)
        \/ Close(conn)
    \/ \E p \in Procs :
        \/ CreateTitledTask(p) /\ streamWrites
        \/ tk_meta(p) /\ streamWrites
        \/ tk_msgins(p) /\ streamWrites
        \/ tk_msgget(p) /\ streamWrites
        \/ tk_taskins(p) /\ streamWrites
        \/ tk_taskget(p) /\ streamWrites
        \/ tk_botget(p) /\ streamWrites
        \/ tk_botins(p) /\ streamWrites
        \/ tk_botmsgins(p) /\ streamWrites
        \/ tk_botmsgget(p) /\ streamWrites

SpecDashStream == Init /\ [][NextDashStream]_vars

\* the Create task from dashboard commands started so far
TaskCmds ==
    {c \in 1..nCmds : \/ c \in DOMAIN done /\ done[c].cmd = "CreateTask"
                      \/ \E p \in Procs : loc[p].cmd = "CreateTask" /\ loc[p].cid = c}

\* the locals of command c: of its handler while it runs, as answered after
LocalsOf(c) ==
    IF c \in DOMAIN done THEN done[c].req
    ELSE loc[CHOOSE p \in Procs : loc[p].cmd # "idle" /\ loc[p].cid = c]

\* the events of command c in the sequence log, in the order of the log
EventSeqOf(log, c) == SelectSeq(log, LAMBDA e : e.cid = c)

\* C27: the events a Create task from dashboard has emitted are, in emission
\* order, message_created for its origin message, then task_created for a
\* task whose message_id is the origin message, then message_created for
\* its TaskBot message (all three once it is answered 200); what a
\* connection was sent of them is a run of that sequence in the same order.
C27_CreateTaskEventOrder ==
    \A c \in TaskCmds :
        LET l == LocalsOf(c)
            E == EventSeqOf(events, c)
        IN /\ Len(E) <= 3
           /\ Len(E) >= 1 => E[1] = [type |-> "message_created", cid |-> c, id |-> l.messageID]
           /\ Len(E) >= 2 =>
                 /\ E[2].type = "task_created"
                 /\ \E t \in tasks : /\ t.id = E[2].id
                                     /\ t.message_id = l.messageID
                                     /\ t.message_id # l.botMessageID
           /\ Len(E) = 3 =>
                 /\ E[3] = [type |-> "message_created", cid |-> c, id |-> l.botMessageID]
                 /\ l.botMessageID # l.messageID
           /\ (c \in DOMAIN done /\ done[c].status = 200) => Len(E) = 3
           /\ \A conn \in Conns :
                 \E a \in 1..(Len(E) + 1), b \in 0..Len(E) :
                     EventSeqOf(written[conn], c) = SubSeq(E, a, b)

\* a connection was sent the three events of one command with an event of
\* another command among them
C27_Witness ==
    \E conn \in Conns, c \in TaskCmds :
        /\ Len(EventSeqOf(written[conn], c)) = 3
        /\ \E i, j, k \in 1..Len(written[conn]) :
              /\ i < j /\ j < k
              /\ written[conn][i].cid = c
              /\ written[conn][k].cid = c
              /\ written[conn][j].cid # c

\* ------------------------------------- POST /auth/login, every kind of body
MaxLoginCmds == 2
LoginEmails == {UserEmail(u) : u \in Users} \cup {"carol@example.com"} \cup MalformedEmails
LoginPasswords == {UserPassword(u) : u \in Users} \cup {"wrong", ""}

LoginAttempt(p) ==
    \E email \in LoginEmails, password \in LoginPasswords :
        /\ nCmds < MaxLoginCmds
        /\ Cardinality(DOMAIN sessLog) + Cardinality({q \in Procs : loc[q].cmd = "Login"})
               < MaxSessions
        /\ start(p, "lg_get", [cmd |-> "Login", email |-> email, password |-> password])
        /\ UNCHANGED <<sessVars, done>>
        /\ UNCHANGED notSession

NextLogin ==
    \E p \in Procs :
        \/ LoginAttempt(p) /\ streamWrites
        \/ lg_get(p) /\ streamWrites
        \/ lg_issue(p) /\ streamWrites

SpecLogin == Init /\ [][NextLogin]_vars

\* the answered logins whose body passed the schema
Logins == {c \in DOMAIN done : /\ done[c].cmd = "Login"
                               /\ isEmail(done[c].req.email)
                               /\ done[c].req.password # ""}
UnknownEmail(c) == ~ \E u \in users : u.email = done[c].req.email
WrongPassword(c) ==
    \E u \in users : /\ u.email = done[c].req.email
                      /\ u.password # hashPassword(done[c].req.password)

\* C29: a login that fails because the email is unknown and a login that
\* fails because the password of a known email is wrong get the same
\* status and the same error body
C29_LoginFailureUniform ==
    \A c1, c2 \in Logins :
        (UnknownEmail(c1) /\ WrongPassword(c2))
            => /\ done[c1].status = done[c2].status
               /\ done[c1].status # 200
               /\ done[c1].req.error = done[c2].req.error

C29_Witness ==
    \E c1, c2 \in Logins : /\ UnknownEmail(c1)
                            /\ WrongPassword(c2)
                            /\ done[c2].req.email = UserEmail(2)

\* ------------- the page (part_002): stream.onmessage (627-733), loadTasks
MaxPageCmds == 2
MaxPages == 1
PageConns == 1..MaxPages

notPage == <<users, channels, threads, messages, replies, tasks, nextId, events,
             pc, loc, done, nCmds, created, manual, taskLog, sessVars,
             streamClients, written, connState, subFrom, closedAt, failedAt, view>>

\* void loadTasks(): the call is started and not awaited; its GET /tasks is
\* answered and its setTasks runs in later steps
loadStarted(pg) ==
    [pg EXCEPT !.loads = @ \cup {[k |-> pg.nLoads + 1, answered |-> FALSE, rows |-> {}]},
               !.nLoads = @ + 1]

\* the first loadTasks of a page whose stream is open (the effect on
\* [user, dashboardFilterScope, ...], 557-560)
pg_boot(conn) ==
    /\ connState[conn] = "open"
    /\ ~ page[conn].booted
    /\ page' = [page EXCEPT ![conn] = [loadStarted(@) EXCEPT !.booted = TRUE]]
    /\ UNCHANGED notPage

\* stream.onmessage on one payload: task_created and task_updated start a
\* loadTasks, task_deleted filters the task out and starts one, the other
\* types leave the task list alone
onmessage(pg, payload) ==
    LET read == [pg EXCEPT !.seen = @ + 1]
    IN IF payload.type \in {"task_created", "task_updated"}
       THEN loadStarted(read)
       ELSE IF payload.type = "task_deleted"
       THEN loadStarted([read EXCEPT !.tasks = {t \in @ : t.id # payload.id}])
       ELSE read

\* the next payload written to the connection reaches the page
pg_onmessage(conn) ==
    /\ page[conn].seen < Len(written[conn])
    /\ page' = [page EXCEPT ![conn] = onmessage(@, written[conn][page[conn].seen + 1])]
    /\ UNCHANGED notPage

\* GET /tasks of one loadTasks under the initial filter scope "all":
\* await all(SELECT ...), res.json(tasks)
pg_list(conn) ==
    \E l \in page[conn].loads :
        /\ ~ l.answered
        /\ page' = [page EXCEPT ![conn].loads =
                        (@ \ {l}) \cup {[l EXCEPT !.answered = TRUE,
                                                  !.rows = listTasks("none", 0, 0)]}]
        /\ UNCHANGED notPage

\* the answer of one loadTasks arrives: setTasks(taskData)
pg_setTasks(conn) ==
    \E l \in page[conn].loads :
        /\ l.answered
        /\ page' = [page EXCEPT ![conn].tasks = l.rows, ![conn].loads = @ \ {l}]
        /\ UNCHANGED notPage

\* a page reads its stream while tasks are created, updated and deleted
NextPage ==
    \/ \E conn \in PageConns :
        \/ Subscribe(conn)
        \/ pg_boot(conn)
        \/ pg_onmessage(conn)
        \/ pg_list(conn)
        \/ pg_setTasks(conn)
    \/ \E p \in Procs :
        \/ nCmds < MaxPageCmds /\ PostFlaggedMessage(p) /\ streamWrites
        \/ pm_insert(p) /\ streamWrites
        \/ pm_get(p) /\ streamWrites
        \/ pm_meta(p) /\ streamWrites
        \/ pm_info(p) /\ streamWrites
        \/ pm_taskins(p) /\ streamWrites
        \/ pm_taskget(p) /\ streamWrites
        \/ nCmds < MaxPageCmds /\ UpdateTask(p) /\ streamWrites
        \/ ut_update(p) /\ streamWrites
        \/ ut_get(p) /\ streamWrites
        \/ nCmds < MaxPageCmds /\ DeleteTask(p) /\ streamWrites
        \/ dt_get(p) /\ streamWrites
        \/ dt_delete(p) /\ streamWrites
        \/ nCmds < MaxPageCmds /\ DeleteMessage(p) /\ streamWrites
        \/ dm_get(p) /\ streamWrites
        \/ dm_meta(p) /\ streamWrites
        \/ dm_replies(p) /\ streamWrites
        \/ dm_tasks(p) /\ streamWrites
        \/ dm_message(p) /\ streamWrites

SpecPage == Init /\ [][NextPage]_vars

\* every payload written to the connection has been handled, no loadTasks
\* is in flight and no command is running
Settled(conn) ==
    /\ conn \in streamClients
    /\ page[conn].booted
    /\ page[conn].seen = Len(written[conn])
    /\ page[conn].loads = {}
    /\ \A p \in Procs : pc[p] = "idle"

\* C30: once every event has been delivered and every re-fetch it started
\* has completed, the task list of a connected page is the result of List
\* tasks under the page's filter scope
C30_TaskListConverges ==
    \A conn \in PageConns : Settled(conn) => page[conn].tasks = listTasks("none", 0, 0)

\* ----------------------------------------- Post message on a missing thread
\* C31: Post message on a thread id that does not exist answers 404, stores
\* no message and emits no event; so every stored message belongs to an
\* existing thread, and the message of every answered Post message has had
\* its message_created event
C31_PostOnMissingThreadRejected ==
    /\ \A m \in messages : \E t \in threads : t.id = m.thread_id
    /\ \A c \in DOMAIN done :
          (done[c].cmd = "PostMessage" /\ ~ \E t \in threads : t.id = done[c].req.threadId)
              => /\ done[c].status = 404
                 /\ ~ \E i \in 1..Len(events) : events[i].cid = c
    /\ \A c \in DOMAIN done :
          (done[c].cmd = "PostMessage" /\ done[c].status = 200)
              => \E i \in 1..Len(events) :
                    events[i] = [type |-> "message_created", cid |-> c,
                                 id |-> done[c].req.lastID]

\* ------------------------------------------- the thread view (part_002)
notView == <<users, channels, threads, messages, replies, tasks, nextId, events,
             pc, loc, done, nCmds, created, manual, taskLog, sessVars,
             streamClients, written, connState, subFrom, closedAt, failedAt, page>>

\* ORDER BY id ASC
RECURSIVE rowsById(_)
rowsById(S) ==
    IF S = {} THEN <<>>
    ELSE LET first == CHOOSE r \in S : \A o \in S : o.id >= r.id
         IN <<first>> \o rowsById(S \ {first})

\* ORDER BY id DESC
RECURSIVE rowsByIdDesc(_)
rowsByIdDesc(S) ==
    IF S = {} THEN <<>>
    ELSE LET first == CHOOSE r \in S : \A o \in S : o.id <= r.id
         IN <<first>> \o rowsByIdDesc(S \ {first})

hasId(list, id) == \E i \in 1..Len(list) : list[i].id = id

\* GET /channels
channelRows == rowsById({[id |-> c.id] : c \in channels})

\* GET /channels/:channelId/threads
threadRows(channelId) ==
    rowsByIdDesc({[id |-> t.id, title |-> t.title] : t \in {x \in threads : x.channel_id = channelId}})

\* GET /threads/:threadId/messages: the rows with their reply_count
messageRows(threadId) ==
    rowsById({[id |-> m.id, thread_id |-> m.thread_id, content |-> m.content,
               reply_count |-> replyCount(m.id)]
                : m \in {x \in messages : x.thread_id = threadId
                                          /\ \E u \in users : u.id = x.user_id}})

\* GET /messages/:messageId/replies
replyRows(messageId) ==
    rowsById({[id |-> r.id, message_id |-> r.message_id, content |-> r.content]
                : r \in {x \in replies : x.message_id = messageId
                                         /\ \E u \in users : u.id = x.user_id}})

\* a fetch is started and not awaited: loadThreadData, loadReplies
fetchStarted(v, kind, arg) ==
    [v EXCEPT !.fetches = @ \cup {[k |-> v.nFetches + 1, kind |-> kind, arg |-> arg,
                                   answered |-> FALSE, failed |-> FALSE, rows |-> <<>>]},
              !.nFetches = @ + 1]

unreadOf(v, threadId) ==
    IF threadId \in DOMAIN v.unreadByThread THEN v.unreadByThread[threadId] ELSE 0

\* a counter that is set rather than counted up
markThreadActivityOnce(v, threadId) ==
    [v EXCEPT !.unreadByThread =
        [t \in (DOMAIN v.unreadByThread) \cup {threadId} |->
            IF t = threadId THEN 1 ELSE v.unreadByThread[t]]]

\* markThreadActivity (410-422): prev[threadId] || 0, plus one
markThreadActivity(v, threadId) ==
    [v EXCEPT !.unreadByThread =
        [t \in (DOMAIN v.unreadByThread) \cup {threadId} |->
            IF t = threadId THEN unreadOf(v, threadId) + 1 ELSE v.unreadByThread[t]]]

\* clearThreadActivity (424-437): the key of the thread is deleted
clearThreadActivity(v, threadId) ==
    IF unreadOf(v, threadId) = 0 THEN v
    ELSE [v EXCEPT !.unreadByThread =
             [t \in (DOMAIN v.unreadByThread) \ {threadId} |-> v.unreadByThread[t]]]

\* the effect on [user, selectedThreadId, messages] (738-746): the unread
\* counter of the focused thread is cleared and POST /threads/:id/read is
\* sent with the id of the last entry of messages, or 0
markRead(v) ==
    IF v.user /\ v.selectedThreadId # 0
    THEN [clearThreadActivity(v, v.selectedThreadId) EXCEPT
             !.reads = @ \cup {[threadId |-> v.selectedThreadId,
                                lastReadMessageId |->
                                    IF Len(v.messages) > 0
                                    THEN v.messages[Len(v.messages)].id ELSE 0]}]
    ELSE v

\* the effect on [user, selectedChannelId, selectedThreadId,
\* selectedMessageId, ...] (621-736): the EventSource is closed and a new
\* one opened
reopened(v) == [v EXCEPT !.conn = @ + 1, !.seen = 0]

\* a creation event that appends whatever the list holds
appendedAlways(list, row) == Append(list, row)

\* prev.some((x) => x.id === row.id) ? prev : [...prev, row]
appended(list, row) == IF hasId(list, row.id) THEN list ELSE Append(list, row)

\* prev.some((t) => t.id === row.id) ? prev : [row, ...prev]
prepended(list, row) == IF hasId(list, row.id) THEN list ELSE <<row>> \o list

\* prev.map((x) => (x.id === row.id ? row : x))
replaced(list, row) == [i \in 1..Len(list) |-> IF list[i].id = row.id THEN row ELSE list[i]]

\* prev.filter((x) => x.id !== id)
removed(list, id) == SelectSeq(list, LAMBDA x : x.id # id)

\* prev.map((m) => (m.id === messageId ? { ...m, reply_count: ... } : m))
replyCounted(list, messageId, delta) ==
    [i \in 1..Len(list) |->
        IF list[i].id = messageId
        THEN [list[i] EXCEPT !.reply_count = IF @ + delta < 0 THEN 0 ELSE @ + delta]
        ELSE list[i]]

\* what the handler that emitted the event put into the payload
payloadThreadId(e) == LocalsOf(e.cid).threadId
payloadMessageId(e) == LocalsOf(e.cid).messageId
payloadChannelId(e) ==
    IF LocalsOf(e.cid).cmd = "CreateChannel" THEN LocalsOf(e.cid).lastID
    ELSE LocalsOf(e.cid).channelId
payloadThread(e) ==
    [id |-> e.id,
     title |-> IF LocalsOf(e.cid).cmd = "CreateChannel" THEN "main" ELSE LocalsOf(e.cid).title]
\* payload.message.user_name === TASK_BOT_NAME: the second message of Create
\* task from dashboard
payloadByTaskBot(e) ==
    LocalsOf(e.cid).cmd = "CreateTask" /\ e.id = LocalsOf(e.cid).botMessageID
\* the row the handler selected.  Create task from dashboard selects the
\* row it has just inserted; the specifications that run it run no Post
\* reply, so its reply_count is 0
payloadMessage(e) ==
    LET l == LocalsOf(e.cid)
    IN IF l.cmd = "CreateTask"
       THEN [id |-> e.id, thread_id |-> l.threadId,
             content |-> IF payloadByTaskBot(e)
                         THEN renderTaskBotMessage(l.botMessage, l.title, UserName(l.user))
                         ELSE IF l.note # <<>> THEN l.title \o <<"\n">> \o l.note
                         ELSE l.title,
             reply_count |-> 0]
       ELSE [id |-> e.id, thread_id |-> l.threadId,
             content |-> l.rowContent, reply_count |-> l.replyCount]
payloadReply(e) ==
    [id |-> e.id, message_id |-> LocalsOf(e.cid).messageId,
     content |-> LocalsOf(e.cid).rowContent]

\* the branch taken for an event of the focused thread
focused(v, e) == v.selectedThreadId # 0 /\ payloadThreadId(e) = v.selectedThreadId

\* setMessages with a new array runs the effect on [.., messages]
withMessages(v, list) == markRead([v EXCEPT !.messages = list])

\* stream.onmessage (627-733) on one payload, with the effects the state
\* change runs
viewOnmessage(v, e) ==
    CASE e.type = "channel_created" ->
            [v EXCEPT !.channels = appended(@, [id |-> e.id])]
      [] e.type = "thread_created" ->
            IF v.selectedChannelId # 0 /\ payloadChannelId(e) = v.selectedChannelId
            THEN [v EXCEPT !.threads = prepended(@, payloadThread(e))]
            ELSE v
      [] e.type = "message_created" ->
            IF ~ v.receiveTaskBotMessages /\ payloadByTaskBot(e) THEN v
            ELSE IF focused(v, e)
            THEN IF hasId(v.messages, e.id) THEN v
                 ELSE withMessages(v, appended(v.messages, payloadMessage(e)))
            ELSE markThreadActivity(v, payloadThreadId(e))
      [] e.type = "message_updated" ->
            IF focused(v, e) THEN withMessages(v, replaced(v.messages, payloadMessage(e)))
            ELSE v
      [] e.type = "message_deleted" ->
            IF focused(v, e)
            THEN LET w == withMessages(v, removed(v.messages, e.id))
                 IN IF v.selectedMessageId = e.id
                    THEN reopened([w EXCEPT !.selectedMessageId = 0, !.replies = <<>>])
                    ELSE w
            ELSE markThreadActivity(v, payloadThreadId(e))
      [] e.type = "reply_created" ->
            IF focused(v, e)
            THEN LET w == withMessages(v, replyCounted(v.messages, payloadMessageId(e), 1))
                 IN IF v.selectedMessageId = payloadMessageId(e)
                    THEN [w EXCEPT !.replies = appended(@, payloadReply(e))]
                    ELSE w
            ELSE markThreadActivity(v, payloadThreadId(e))
      [] e.type = "reply_updated" ->
            IF focused(v, e) /\ v.selectedMessageId = payloadMessageId(e)
            THEN [v EXCEPT !.replies = replaced(@, payloadReply(e))]
            ELSE v
      [] e.type = "reply_deleted" ->
            IF focused(v, e)
            THEN LET w == withMessages(v, replyCounted(v.messages, payloadMessageId(e), 0 - 1))
                 IN IF v.selectedMessageId = payloadMessageId(e)
                    THEN [w EXCEPT !.replies = removed(@, e.id)]
                    ELSE w
            ELSE markThreadActivity(v, payloadThreadId(e))
      [] OTHER -> v

\* the thread loadThreads focuses: prev ?? mainThread?.id ?? data[0].id
firstFocus(data) ==
    IF \E i \in 1..Len(data) : data[i].title = "main"
    THEN data[CHOOSE i \in 1..Len(data) :
                 /\ data[i].title = "main"
                 /\ \A j \in 1..(i - 1) : data[j].title # "main"].id
    ELSE data[1].id

\* history: the events counted for a thread start again when it is focused
focusNoted(v) ==
    [v EXCEPT !.received = [t \in (DOMAIN @) \ {v.selectedThreadId} |-> @[t]],
              !.muted = [t \in (DOMAIN @) \ {v.selectedThreadId} |-> @[t]]]

\* bootstrap (482-500) up to the first focus, taken as one step: setUser,
\* loadChannels selects the first channel, loadThreads focuses a thread;
\* the effects of that render open the EventSource, start loadThreadData
\* and send the read cursor.  receive is the stored preference (514-520)
bootstrap(receive) ==
    /\ ~ view.user
    /\ LET data == threadRows(channelRows[1].id)
           v == [view EXCEPT !.user = TRUE, !.receiveTaskBotMessages = receive,
                             !.channels = channelRows,
                             !.selectedChannelId = channelRows[1].id,
                             !.threads = data, !.selectedThreadId = firstFocus(data),
                             !.conn = 1]
       IN /\ data # <<>>
          /\ view' = focusNoted(markRead(fetchStarted(v, "messages", v.selectedThreadId)))
    /\ UNCHANGED notView

vw_boot == bootstrap(TRUE)

\* the page of a user who has unticked "Receive TaskBot messages"
vw_bootMuted == bootstrap(FALSE)

\* a click on a thread of the list (1396): the effects start loadThreadData,
\* clear the selected message and the replies, send the read cursor with
\* the messages of that render, and reopen the EventSource
vw_selectThread ==
    \E i \in 1..Len(view.threads) :
        /\ view.user
        /\ view.threads[i].id # view.selectedThreadId
        /\ view.conn < MaxConns
        /\ connState[view.conn] = "open"
        /\ LET v == [view EXCEPT !.selectedThreadId = view.threads[i].id,
                                 !.selectedMessageId = 0, !.replies = <<>>]
           IN view' = focusNoted(
                          reopened(markRead(fetchStarted(v, "messages", v.selectedThreadId))))
        /\ UNCHANGED notView

\* a click on the reply button of a message (1548): the effects start
\* loadReplies and reopen the EventSource
vw_selectMessage ==
    \E i \in 1..Len(view.messages) :
        /\ view.user
        /\ view.messages[i].id # view.selectedMessageId
        /\ view.conn < MaxConns
        /\ connState[view.conn] = "open"
        /\ LET v == [view EXCEPT !.selectedMessageId = view.messages[i].id]
           IN view' = reopened(fetchStarted(v, "replies", v.selectedMessageId))
        /\ UNCHANGED notView

\* the server answers one fetch: GET /threads/:threadId/messages (397-418)
\* or GET /messages/:messageId/replies (674-690, 404 without the message)
vw_answer ==
    \E f \in view.fetches :
        /\ ~ f.answered
        /\ view' = [view EXCEPT !.fetches = (@ \ {f}) \cup
               {IF f.kind = "messages"
                THEN [f EXCEPT !.answered = TRUE, !.rows = messageRows(f.arg)]
                ELSE IF \E m \in messages : m.id = f.arg
                THEN [f EXCEPT !.answered = TRUE, !.rows = replyRows(f.arg)]
                ELSE [f EXCEPT !.answered = TRUE, !.failed = TRUE]}]
        /\ UNCHANGED notView

\* the answer of one fetch arrives: setMessages(msgData) (461) or
\* setReplies(data) (479); api throws on an error answer and nothing is set
vw_apply ==
    \E f \in view.fetches :
        /\ f.answered
        /\ LET v == [view EXCEPT !.fetches = @ \ {f}]
           IN view' = IF f.failed THEN v
                      ELSE IF f.kind = "messages" THEN withMessages(v, f.rows)
                      ELSE [v EXCEPT !.replies = f.rows]
        /\ UNCHANGED notView

\* a creation event for an id the list it would join already holds
alreadyListed(v, e) ==
    \/ e.type = "channel_created" /\ hasId(v.channels, e.id)
    \/ /\ e.type = "thread_created"
       /\ payloadChannelId(e) = v.selectedChannelId
       /\ hasId(v.threads, e.id)
    \/ e.type = "message_created" /\ focused(v, e) /\ hasId(v.messages, e.id)
    \/ /\ e.type = "reply_created"
       /\ focused(v, e)
       /\ v.selectedMessageId = payloadMessageId(e)
       /\ hasId(v.replies, e.id)

\* the events an unread counter counts: creations and deletions of
\* messages and replies
CountedTypes == {"message_created", "message_deleted", "reply_created", "reply_deleted"}

\* one more for thread t in a map of counts
countedFor(counts, t) ==
    [x \in (DOMAIN counts) \cup {t} |->
        IF x = t THEN (IF t \in DOMAIN counts THEN counts[t] ELSE 0) + 1 ELSE counts[x]]

\* a message_created payload the page drops (638, 643): the preference is
\* off and TaskBot is the author
mutedPayload(v, e) ==
    e.type = "message_created" /\ ~ v.receiveTaskBotMessages /\ payloadByTaskBot(e)

\* history of one received payload: dedups, received and muted
receiveNoted(before, e, after) ==
    [after EXCEPT
        !.dedups = IF alreadyListed(before, e) THEN @ \cup {e.type} ELSE @,
        !.received = IF e.type \in CountedTypes /\ ~ focused(before, e)
                     THEN countedFor(@, payloadThreadId(e)) ELSE @,
        !.muted = IF mutedPayload(before, e) /\ ~ focused(before, e)
                  THEN countedFor(@, payloadThreadId(e)) ELSE @]

\* the next payload written to the EventSource of the view reaches
\* stream.onmessage
vw_onmessage ==
    /\ view.conn \in Conns
    /\ view.seen < Len(written[view.conn])
    /\ LET e == written[view.conn][view.seen + 1]
           v == viewOnmessage([view EXCEPT !.seen = @ + 1], e)
       IN /\ v.conn \in Conns
          /\ view' = receiveNoted(view, e, v)
    /\ UNCHANGED notView

\* GET /events of the EventSource the view holds
vw_subscribe == view.conn \in Conns /\ Subscribe(view.conn)

\* req.on("close") of an EventSource the view has closed
vw_close == \E conn \in Conns : conn < view.conn /\ Close(conn)

\* ------------------------- commands of another user while the view runs
MaxFocusCmds == 2

\* bob adds the thread "topic" to channel 1
OtherCreatesThread(p) ==
    /\ nCmds < MaxFocusCmds
    /\ ~ \E t \in threads : t.title = "topic"
    /\ \A q \in Procs : loc[q].cmd # "CreateThread"
    /\ start(p, "th_insert", [cmd |-> "CreateThread", user |-> 2, channelId |-> 1,
                              title |-> "topic"])
    /\ UNCHANGED <<channels, threads, nextId, events, done, created, manual>>
    /\ UNCHANGED notChannel

\* bob posts "a" in a thread
OtherPostsMessage(p) ==
    \E threadId \in ThreadIds :
        /\ nCmds < MaxFocusCmds
        /\ \E t \in threads : t.id = threadId
        /\ start(p, "pm_insert", [cmd |-> "PostMessage", user |-> 2, threadId |-> threadId,
                                  createTask |-> FALSE, raw |-> <<"a">>]
                                 @@ postPayload([content |-> <<"a">>, createTask |-> FALSE]))
        /\ UNCHANGED <<messages, replies, tasks, nextId, events, done, taskLog>>
        /\ UNCHANGED notStore

\* bob deletes one of the messages
OtherDeletesMessage(p) ==
    \E m \in messages :
        /\ nCmds < MaxFocusCmds
        /\ start(p, "dm_get", [cmd |-> "DeleteMessage", user |-> 2, messageId |-> m.id])
        /\ UNCHANGED <<messages, replies, tasks, nextId, events, done, taskLog>>
        /\ UNCHANGED notStore

\* the view switches threads while bob creates a thread, posts and deletes
NextFocus ==
    \/ vw_boot
    \/ vw_subscribe
    \/ vw_close
    \/ vw_onmessage
    \/ vw_answer
    \/ vw_apply
    \/ vw_selectThread
    \/ \E p \in Procs :
        \/ OtherCreatesThread(p) /\ streamWrites
        \/ th_insert(p) /\ streamWrites
        \/ th_get(p) /\ streamWrites
        \/ OtherPostsMessage(p) /\ streamWrites
        \/ pm_insert(p) /\ streamWrites
        \/ pm_get(p) /\ streamWrites
        \/ pm_meta(p) /\ streamWrites
        \/ OtherDeletesMessage(p) /\ streamWrites
        \/ dm_get(p) /\ streamWrites
        \/ dm_meta(p) /\ streamWrites
        \/ dm_replies(p) /\ streamWrites
        \/ dm_tasks(p) /\ streamWrites
        \/ dm_message(p) /\ streamWrites

SpecFocus == Init /\ [][NextFocus]_vars

\* C35: every read cursor the view sends for a thread carries 0 or the id
\* of a message of that thread
C35_ReadCursorInThread ==
    \A r \in view.reads :
        \/ r.lastReadMessageId = 0
        \/ \E c \in DOMAIN done \cup {loc[p].cid : p \in {q \in Procs : loc[q].cmd # "idle"}} :
              /\ LocalsOf(c).cmd = "PostMessage"
              /\ "lastID" \in DOMAIN LocalsOf(c)
              /\ LocalsOf(c).lastID = r.lastReadMessageId
              /\ LocalsOf(c).threadId = r.threadId

\* every payload written to the EventSource of the view has been handled,
\* no fetch is in flight and no command is running
ViewSettled ==
    /\ view.user
    /\ view.conn \in streamClients
    /\ view.seen = Len(written[view.conn])
    /\ view.fetches = {}
    /\ \A p \in Procs : pc[p] = "idle"

\* C36: once every command has completed and every event and fetch answer
\* has been delivered, the message list of the view is the server's list
\* of the focused thread
C36_MessageListConverges ==
    ViewSettled => view.messages = messageRows(view.selectedThreadId)

\* ------------------------------------ replies while the view is focused
MaxReplyCmds == 3

\* bob replies "a" to one of the messages
OtherPostsReply(p) ==
    \E m \in messages :
        /\ nCmds < MaxReplyCmds
        /\ start(p, "pr_parent", [cmd |-> "PostReply", user |-> 2, messageId |-> m.id,
                                  createTask |-> FALSE, raw |-> <<"a">>]
                                 @@ postPayload([content |-> <<"a">>, createTask |-> FALSE]))
        /\ UNCHANGED <<messages, replies, tasks, nextId, events, done, taskLog>>
        /\ UNCHANGED notStore

\* bob deletes one of the replies
OtherDeletesReply(p) ==
    \E r \in replies :
        /\ nCmds < MaxReplyCmds
        /\ start(p, "dr_get", [cmd |-> "DeleteReply", user |-> 2, replyId |-> r.id])
        /\ UNCHANGED <<messages, replies, tasks, nextId, events, done, taskLog>>
        /\ UNCHANGED notStore

\* bob posts the first message of thread 1
OtherPostsFirstMessage(p) ==
    /\ nextId.messages = 1
    /\ \A q \in Procs : loc[q].cmd # "PostMessage"
    /\ OtherPostsMessage(p)

\* the view shows a thread while bob posts a message, replies and deletes
\* replies
NextReplies ==
    \/ vw_boot
    \/ vw_subscribe
    \/ vw_onmessage
    \/ vw_answer
    \/ vw_apply
    \/ \E p \in Procs :
        \/ OtherPostsFirstMessage(p) /\ streamWrites
        \/ pm_insert(p) /\ streamWrites
        \/ pm_get(p) /\ streamWrites
        \/ pm_meta(p) /\ streamWrites
        \/ OtherPostsReply(p) /\ streamWrites
        \/ pr_parent(p) /\ streamWrites
        \/ pr_insert(p) /\ streamWrites
        \/ pr_get(p) /\ streamWrites
        \/ pr_meta(p) /\ streamWrites
        \/ OtherDeletesReply(p) /\ streamWrites
        \/ dr_get(p) /\ streamWrites
        \/ dr_parent(p) /\ streamWrites
        \/ dr_meta(p) /\ streamWrites
        \/ dr_delete(p) /\ streamWrites

SpecReplies == Init /\ [][NextReplies]_vars

\* C37: once every event and fetch answer has been delivered, the
\* reply_count of every message of the view is the number of replies the
\* server stores for it
C37_ReplyCountConverges ==
    ViewSettled => \A i \in 1..Len(view.messages) :
                      view.messages[i].reply_count = replyCount(view.messages[i].id)

\* ------------------------------------- edits while the view is focused
MaxEditCmds == 3

\* bob edits one of the messages to "b"
OtherEditsMessage(p) ==
    \E m \in messages :
        /\ nCmds < MaxEditCmds
        /\ \A q \in Procs : loc[q].cmd # "EditMessage"
        /\ start(p, "em_get", [cmd |-> "EditMessage", user |-> 2, messageId |-> m.id,
                               content |-> <<"b">>])
        /\ UNCHANGED <<messages, replies, tasks, nextId, events, done, taskLog>>
        /\ UNCHANGED notStore

\* the view shows thread 1 while bob creates a thread, posts and edits
NextEdits ==
    \/ vw_boot
    \/ vw_subscribe
    \/ vw_onmessage
    \/ vw_answer
    \/ vw_apply
    \/ \E p \in Procs :
        \/ OtherCreatesThread(p) /\ streamWrites
        \/ th_insert(p) /\ streamWrites
        \/ th_get(p) /\ streamWrites
        \/ OtherPostsMessage(p) /\ streamWrites
        \/ pm_insert(p) /\ streamWrites
        \/ pm_get(p) /\ streamWrites
        \/ pm_meta(p) /\ streamWrites
        \/ OtherEditsMessage(p) /\ streamWrites
        \/ em_get(p) /\ streamWrites
        \/ em_update(p) /\ streamWrites
        \/ em_select(p) /\ streamWrites
        \/ em_meta(p) /\ streamWrites

SpecEdits == Init /\ [][NextEdits]_vars

UpdateTypes == {"message_updated", "reply_updated"}

\* C33: a message_updated or reply_updated payload of a thread that is not
\* focused marks activity on that thread and changes no list; for the
\* focused thread it replaces the entry with its id in place and changes
\* no unread counter
C33_UpdateEventsPatchOrMark ==
    [][(/\ view.conn \in Conns
        /\ view'.conn = view.conn
        /\ view'.seen = view.seen + 1
        /\ written[view.conn][view.seen + 1].type \in UpdateTypes)
       => LET e == written[view.conn][view.seen + 1]
          IN IF focused(view, e)
             THEN /\ view'.unreadByThread = view.unreadByThread
                  /\ e.type = "message_updated"
                        => view'.messages = replaced(view.messages, payloadMessage(e))
                  /\ e.type = "reply_updated" /\ view.selectedMessageId = payloadMessageId(e)
                        => view'.replies = replaced(view.replies, payloadReply(e))
             ELSE /\ view'.unreadByThread
                        = markThreadActivity(view, payloadThreadId(e)).unreadByThread
                  /\ view'.channels = view.channels
                  /\ view'.threads = view.threads
                  /\ view'.messages = view.messages
                  /\ view'.replies = view.replies]_vars

\* ------------------------------- creations while the view is being loaded
MaxDedupCmds == 3

\* bob creates the channel "dev"
OtherCreatesChannel(p) ==
    /\ nCmds < MaxDedupCmds
    /\ ~ \E c \in channels : c.name = "dev"
    /\ \A q \in Procs : loc[q].cmd # "CreateChannel"
    /\ start(p, "cc_insert", [cmd |-> "CreateChannel", user |-> 2, name |-> "dev"])
    /\ UNCHANGED <<channels, threads, nextId, events, done, created, manual>>
    /\ UNCHANGED notChannel

\* bob replies once
OtherPostsFirstReply(p) ==
    /\ nextId.replies = 1
    /\ \A q \in Procs : loc[q].cmd # "PostReply"
    /\ OtherPostsReply(p)

\* the view loads its lists and opens a message while bob creates a
\* channel, a thread, a message and a reply
NextDedup ==
    \/ vw_boot
    \/ vw_subscribe
    \/ vw_close
    \/ vw_onmessage
    \/ vw_answer
    \/ vw_apply
    \/ vw_selectMessage
    \/ \E p \in Procs :
        \/ OtherCreatesChannel(p) /\ streamWrites
        \/ cc_insert(p) /\ streamWrites
        \/ cc_get(p) /\ streamWrites
        \/ cc_threadins(p) /\ streamWrites
        \/ cc_threadget(p) /\ streamWrites
        \/ OtherCreatesThread(p) /\ streamWrites
        \/ th_insert(p) /\ streamWrites
        \/ th_get(p) /\ streamWrites
        \/ OtherPostsFirstMessage(p) /\ streamWrites
        \/ pm_insert(p) /\ streamWrites
        \/ pm_get(p) /\ streamWrites
        \/ pm_meta(p) /\ streamWrites
        \/ OtherPostsFirstReply(p) /\ streamWrites
        \/ pr_parent(p) /\ streamWrites
        \/ pr_insert(p) /\ streamWrites
        \/ pr_get(p) /\ streamWrites
        \/ pr_meta(p) /\ streamWrites

SpecDedup == Init /\ [][NextDedup]_vars

noTwoWithSameId(list) ==
    \A i, j \in 1..Len(list) : list[i].id = list[j].id => i = j

\* C32: the channel, thread, message and reply lists of the view never
\* hold two entries with the same id
C32_ListsHoldEachIdOnce ==
    /\ noTwoWithSameId(view.channels)
    /\ noTwoWithSameId(view.threads)
    /\ noTwoWithSameId(view.messages)
    /\ noTwoWithSameId(view.replies)

\* a message_created and a reply_created payload have arrived for ids the
\* lists already held
C32_Witness ==
    /\ {"message_created", "reply_created"} \subseteq view.dedups
    /\ view.messages # <<>>
    /\ view.replies # <<>>

\* --------------------------------- unread counters of the other threads
MaxUnreadCmds == 2

\* POST /tasks by bob in one of the threads, a title and no note
OtherCreatesTask(p) ==
    \E t \in threads :
        /\ nCmds < MaxUnreadCmds
        /\ \A q \in Procs : loc[q].cmd # "CreateTask"
        /\ start(p, "tk_meta", [cmd |-> "CreateTask", user |-> 2, threadId |-> t.id,
                                title |-> <<"a">>, note |-> <<>>, botMessage |-> <<>>,
                                messageID |-> 0, botMessageID |-> 0])
        /\ UNCHANGED <<users, messages, tasks, nextId, events, done>>
        /\ UNCHANGED notDash

\* the view, with the TaskBot preference on or off, switches threads while
\* bob creates a thread and a task
\* (the payloads written to an EventSource the view has closed are read by
\* nobody, whether or not the server has seen the close)
NextUnread ==
    \/ vw_boot
    \/ vw_bootMuted
    \/ vw_subscribe
    \/ vw_onmessage
    \/ vw_answer
    \/ vw_apply
    \/ vw_selectThread
    \/ \E p \in Procs :
        \/ OtherCreatesThread(p) /\ streamWrites
        \/ th_insert(p) /\ streamWrites
        \/ th_get(p) /\ streamWrites
        \/ OtherCreatesTask(p) /\ streamWrites
        \/ tk_meta(p) /\ streamWrites
        \/ tk_msgins(p) /\ streamWrites
        \/ tk_msgget(p) /\ streamWrites
        \/ tk_taskins(p) /\ streamWrites
        \/ tk_taskget(p) /\ streamWrites
        \/ tk_botget(p) /\ streamWrites
        \/ tk_botins(p) /\ streamWrites
        \/ tk_botmsgins(p) /\ streamWrites
        \/ tk_botmsgget(p) /\ streamWrites

SpecUnread == Init /\ [][NextUnread]_vars

countOf(counts, t) == IF t \in DOMAIN counts THEN counts[t] ELSE 0

\* C34: the unread counter of every thread is the number of message and
\* reply creation and deletion payloads received for it, while it was not
\* focused, since it was last focused; the counter of the focused thread
\* is zero
C34_UnreadCountsEvents ==
    /\ \A t \in ThreadIds : unreadOf(view, t) = countOf(view.received, t)
    /\ view.selectedThreadId # 0 => unreadOf(view, view.selectedThreadId) = 0

\* C34, amended: the payloads counted are those the page does not drop; a
\* message_created authored by TaskBot is dropped, and not counted, by a
\* page whose "Receive TaskBot messages" preference is off
C34_UnreadCountsEventsKept ==
    /\ \A t \in ThreadIds :
          unreadOf(view, t) = countOf(view.received, t) - countOf(view.muted, t)
    /\ \A t \in ThreadIds : view.receiveTaskBotMessages => countOf(view.muted, t) = 0
    /\ view.selectedThreadId # 0 => unreadOf(view, view.selectedThreadId) = 0

\* a page with the preference off has counted bob's message of thread 2
\* and dropped TaskBot's; and a thread with a counter has been focused
C34_Witness ==
    /\ ~ view.receiveTaskBotMessages
    /\ countOf(view.received, 2) = 2
    /\ countOf(view.muted, 2) = 1
    /\ unreadOf(view, 2) = 1

\* ------------------------------------------ POST /auth/signup (248-272)
MaxIdentityCmds == 3
SignupEmails == {TASK_BOT_EMAIL, UserEmail(1), "carol@example.com"} \cup MalformedEmails
SignupPasswords == {"carol-pw", "pw"}

\* z.string().min(4) (252) over the passwords the model draws
longEnough(password) == password # "pw"

Signup(p) ==
    \E email \in SignupEmails, password \in SignupPasswords :
        /\ nCmds < MaxIdentityCmds
        /\ \A q \in Procs : loc[q].cmd # "Signup"
        /\ start(p, "su_insert", [cmd |-> "Signup", name |-> "carol", email |-> email,
                                  password |-> password])
        /\ UNCHANGED <<users, nextId, sessVars, done>>
        /\ UNCHANGED <<channels, threads, messages, replies, tasks, events, created, manual,
                       taskLog>>

\* schema.safeParse: 400; INSERT INTO users inside the try: users.email is
\* UNIQUE (db.ts 75) and the catch answers 400
su_insert(p) ==
    /\ pc[p] = "su_insert"
    /\ IF ~ isEmail(loc[p].email) \/ ~ longEnough(loc[p].password)
       THEN /\ respondWith(p, 400, loc[p] @@ [error |-> "flatten"])
            /\ UNCHANGED <<users, nextId>>
       ELSE IF \E u \in users : u.email = loc[p].email
       THEN /\ respondWith(p, 400, loc[p] @@ [error |-> "Email already exists or invalid request."])
            /\ UNCHANGED <<users, nextId>>
       ELSE /\ users' = users \cup {[id |-> nextId.users, name |-> loc[p].name,
                                      email |-> loc[p].email,
                                      password |-> hashPassword(loc[p].password)]}
            /\ nextId' = [nextId EXCEPT !.users = @ + 1]
            /\ goto(p, "su_issue", loc[p] @@ [lastID |-> nextId.users])
            /\ UNCHANGED done
    /\ UNCHANGED <<sessVars, nCmds>>
    /\ UNCHANGED <<channels, threads, messages, replies, tasks, events, created, manual,
                   taskLog>>

\* issueSession(result.lastID), then res.json with the session id
su_issue(p) ==
    /\ pc[p] = "su_issue"
    /\ LET sessionId == Cardinality(DOMAIN sessLog) + 1
       IN /\ sessions' = issueSession(sessionId, loc[p].lastID)
          /\ sessLog' = sessLog @@ (sessionId :> [issued |-> now, lastUse |-> now])
    /\ respond(p, 200)
    /\ UNCHANGED <<now, revoked, purged, nCmds>>
    /\ UNCHANGED notSession

\* a login with the address of TaskBot or of alice
LoginAs(p) ==
    \E email \in {TASK_BOT_EMAIL, UserEmail(1)},
       password \in {"__system__", "carol-pw", UserPassword(1)} :
        /\ nCmds < MaxIdentityCmds
        /\ \A q \in Procs : loc[q].cmd # "Login"
        /\ start(p, "lg_get", [cmd |-> "Login", email |-> email, password |-> password])
        /\ UNCHANGED <<sessVars, done>>
        /\ UNCHANGED notSession

\* one Create task from dashboard
CreateOneTask(p) ==
    /\ \A c \in 1..nCmds : LocalsOf(c).cmd # "CreateTask"
    /\ CreateTitledTask(p)

\* sign-ups, logins and one Create task from dashboard
NextIdentity ==
    \E p \in Procs :
        \/ Signup(p) /\ streamWrites
        \/ su_insert(p) /\ streamWrites
        \/ su_issue(p) /\ streamWrites
        \/ LoginAs(p) /\ streamWrites
        \/ lg_get(p) /\ streamWrites
        \/ lg_issue(p) /\ streamWrites
        \/ CreateOneTask(p) /\ streamWrites
        \/ tk_meta(p) /\ streamWrites
        \/ tk_msgins(p) /\ streamWrites
        \/ tk_msgget(p) /\ streamWrites
        \/ tk_taskins(p) /\ streamWrites
        \/ tk_taskget(p) /\ streamWrites
        \/ tk_botget(p) /\ streamWrites
        \/ tk_botins(p) /\ streamWrites
        \/ tk_botmsgins(p) /\ streamWrites
        \/ tk_botmsgget(p) /\ streamWrites

SpecIdentity == Init /\ [][NextIdentity]_vars

\* the users getOrCreateTaskBotUserId finds: the rows with TASK_BOT_EMAIL
\* that a TaskBot message names as its author
TaskBotAuthors ==
    {u \in users : /\ u.email = TASK_BOT_EMAIL
                   /\ \E c \in TaskCmds, m \in messages :
                         /\ LocalsOf(c).botMessageID = m.id
                         /\ m.user_id = u.id}

\* C38: no session that getCurrentUser accepts belongs to the user that
\* authors the TaskBot messages
C38_NoSessionForTaskBot ==
    \A s \in sessions :
        (s.revoked_at = <<>> /\ s.expires_at > now)
            => \A u \in TaskBotAuthors : s.user_id # u.id

====
